---------------------------- MODULE Spec2Model ----------------------------
(***************************************************************************)
(* Model of the Akby accessibility widget's license protocol:              *)
(*   - the issuer   scripts/generate-license.ts  (parseArgs, main)         *)
(*   - the verifier src/license.ts  (base64urlDecode, domainMatches,       *)
(*                                   validateLicense)                      *)
(*                                                                         *)
(* Strings are sequences of UTF-16 code units (integers), byte arrays are  *)
(* sequences of integers 0..255.  A string literal of the source is given  *)
(* as its code units with the text in a comment.                           *)
(***************************************************************************)
EXTENDS Integers, Sequences, FiniteSets, TLC

VARIABLES
    b64,    \* base64url round trip: the byte array and both conversions
    dm,     \* one call of domainMatches: arguments and result
    argv,   \* issuer: process.argv.slice(2)
    env,    \* issuer: process.env.A11Y_PRIVATE_KEY
    tz,     \* issuer: the host's offset from UTC, in minutes
    now,    \* the wall clock (read by new Date())
    iss,    \* issuer process: position, exit status, stdout, the key
    ver,    \* one invocation of validateLicense: position, locals, settlement
    calls,  \* invocations of validateLicense in flight together, by number
    page,   \* the page loader (standalone.tsx): configuration, position, DOM
    kb,     \* the widget's keyboard shortcuts: panel, settings, last keydown
    hook,   \* useAccessibilitySettings: state, body classes, localStorage
    loads,  \* calls of the loader's init on one document, by number
    wp      \* the WordPress plugin: the option, what is enqueued, the tags

vars == <<b64, dm, argv, env, tz, now, iss, ver, calls, page, kb, hook, loads, wp>>

---------------------------------------------------------------------------
(* Sequence helpers                                                        *)

\* the concatenation of the sequences ss[lo], ..., ss[hi]
RECURSIVE FlattenRange(_, _, _)
FlattenRange(ss, lo, hi) ==
    IF lo > hi THEN <<>>
    ELSE IF lo = hi THEN ss[lo]
    ELSE FlattenRange(ss, lo, (lo + hi) \div 2) \o FlattenRange(ss, (lo + hi) \div 2 + 1, hi)

Flatten(ss) == FlattenRange(ss, 1, Len(ss))

Replace(s, from, to) == [j \in 1..Len(s) |-> IF s[j] = from THEN to ELSE s[j]]

StartsWith(s, p) == Len(s) >= Len(p) /\ SubSeq(s, 1, Len(p)) = p

\* variant: String.prototype.indexOf, the first occurrence
FirstIndexOf(s, c) ==
    IF \E j \in 1..Len(s) : s[j] = c
    THEN (CHOOSE j \in 1..Len(s) : s[j] = c /\ \A k \in 1..(j-1) : s[k] # c) - 1
    ELSE -1

\* String.prototype.lastIndexOf for a single character, 0-based, -1 if absent
LastIndexOf(s, c) ==
    IF \E j \in 1..Len(s) : s[j] = c
    THEN (CHOOSE j \in 1..Len(s) : s[j] = c /\ \A k \in (j+1)..Len(s) : s[k] # c) - 1
    ELSE -1

Pow2(n) == CASE n = 0 -> 1 [] n = 2 -> 4 [] n = 4 -> 16 [] n = 6 -> 64
             [] n = 12 -> 4096 [] n = 18 -> 262144 [] OTHER -> 1

---------------------------------------------------------------------------
(* Base64                                                                  *)

CH_PLUS  == 43
CH_SLASH == 47
CH_MINUS == 45
CH_UNDER == 95
CH_EQ    == 61
CH_DOT   == 46

\* The base64 alphabet: A-Z a-z 0-9 + /
B64Char(v) ==
    IF v < 26 THEN 65 + v
    ELSE IF v < 52 THEN 97 + (v - 26)
    ELSE IF v < 62 THEN 48 + (v - 52)
    ELSE IF v = 62 THEN CH_PLUS ELSE CH_SLASH

\* -1 for a character outside the alphabet
B64Val(c) ==
    IF c \in 65..90 THEN c - 65
    ELSE IF c \in 97..122 THEN c - 97 + 26
    ELSE IF c \in 48..57 THEN c - 48 + 52
    ELSE IF c = CH_PLUS THEN 62
    ELSE IF c = CH_SLASH THEN 63
    ELSE -1

\* Buffer.prototype.toString('base64'): padded standard base64
BufferToBase64(data) ==
    LET n == Len(data)
        At(k) == IF k <= n THEN data[k] ELSE 0
        Triple(g) == At(3*g + 1) * 65536 + At(3*g + 2) * 256 + At(3*g + 3)
        OutLen == 4 * ((n + 2) \div 3)
    IN  [j \in 1..OutLen |->
            LET g == (j - 1) \div 4
                k == (j - 1) % 4
            IN  IF (k = 2 /\ 3*g + 2 > n) \/ (k = 3 /\ 3*g + 3 > n)
                THEN CH_EQ
                ELSE B64Char((Triple(g) \div Pow2(6 * (3 - k))) % 64)]

\* .replace(/=+$/, '')
RECURSIVE StripTrailingEq(_)
StripTrailingEq(s) ==
    IF s # <<>> /\ s[Len(s)] = CH_EQ
    THEN StripTrailingEq(SubSeq(s, 1, Len(s) - 1))
    ELSE s

\* variant: the padding is kept
base64urlEncodeKeepPadding(data) ==
    Replace(Replace(BufferToBase64(data), CH_PLUS, CH_MINUS), CH_SLASH, CH_UNDER)

\* generate-license.ts base64urlEncode
base64urlEncode(data) ==
    StripTrailingEq(Replace(Replace(BufferToBase64(data), CH_PLUS, CH_MINUS),
                            CH_SLASH, CH_UNDER))

IsAsciiWhitespace(c) == c \in {9, 10, 12, 13, 32}

\* window.atob: the forgiving-base64 decode of the HTML standard.  The bits
\* left over after the last whole byte are discarded without being checked.
atob(input) ==
    LET data0 == SelectSeq(input, LAMBDA c : ~IsAsciiWhitespace(c))
        n0    == Len(data0)
        data  == IF n0 % 4 = 0 /\ n0 >= 2 /\ data0[n0] = CH_EQ /\ data0[n0 - 1] = CH_EQ
                   THEN SubSeq(data0, 1, n0 - 2)
                 ELSE IF n0 % 4 = 0 /\ n0 >= 1 /\ data0[n0] = CH_EQ
                   THEN SubSeq(data0, 1, n0 - 1)
                 ELSE data0
        m     == Len(data)
        bad   == m % 4 = 1 \/ \E j \in 1..m : B64Val(data[j]) = -1
    IN  IF bad
        THEN [ok |-> FALSE, bytes |-> <<>>]
        ELSE [ok |-> TRUE,
              bytes |-> [i \in 1..((m * 6) \div 8) |->
                  LET off == (i - 1) * 8
                      c   == off \div 6
                      r   == off % 6
                      v   == B64Val(data[c + 1]) * 64 + B64Val(data[c + 2])
                  IN  (v \div Pow2(4 - r)) % 256]]

\* while (base64.length % 4 !== 0) base64 += '='
RECURSIVE PadToFour(_)
PadToFour(s) == IF Len(s) % 4 # 0 THEN PadToFour(Append(s, CH_EQ)) ELSE s

\* license.ts base64urlDecode; ok = FALSE when atob throws
base64urlDecode(str) ==
    atob(PadToFour(Replace(Replace(str, CH_MINUS, CH_PLUS), CH_UNDER, CH_SLASH)))

---------------------------------------------------------------------------
(* UTF-8: Buffer.from(str, 'utf-8') / TextEncoder, and TextDecoder.        *)
(* One-, two- and three-byte forms; a byte that starts no such form        *)
(* decodes to U+FFFD, as the non-fatal TextDecoder does.                   *)

REPLACEMENT_CHAR == 65533

Utf8Encode(str) ==
    Flatten([j \in 1..Len(str) |->
        LET c == str[j]
        IN  IF c < 128 THEN <<c>>
            ELSE IF c < 2048 THEN <<192 + (c \div 64), 128 + (c % 64)>>
            ELSE <<224 + (c \div 4096), 128 + ((c \div 64) % 64), 128 + (c % 64)>>])

IsCont(bytes, k) == k \in 1..Len(bytes) /\ bytes[k] \in 128..191
IsLead2(bytes, k) == k \in 1..Len(bytes) /\ bytes[k] \in 194..223 /\ IsCont(bytes, k + 1)
IsLead3(bytes, k) ==
    k \in 1..Len(bytes) /\ bytes[k] \in 224..239 /\ IsCont(bytes, k + 1) /\ IsCont(bytes, k + 2)

\* new TextDecoder().decode(bytes): each byte starts a character unless it
\* continues the two- or three-byte form begun one or two bytes before it
Utf8Decode(bytes) ==
    Flatten([k \in 1..Len(bytes) |->
        IF IsLead2(bytes, k - 1) \/ IsLead3(bytes, k - 1) \/ IsLead3(bytes, k - 2) THEN <<>>
        ELSE IF bytes[k] < 128 THEN <<bytes[k]>>
        ELSE IF IsLead2(bytes, k) THEN <<(bytes[k] - 192) * 64 + (bytes[k + 1] - 128)>>
        ELSE IF IsLead3(bytes, k)
             THEN <<(bytes[k] - 224) * 4096 + (bytes[k + 1] - 128) * 64 + (bytes[k + 2] - 128)>>
        ELSE <<REPLACEMENT_CHAR>>])

---------------------------------------------------------------------------
(* JavaScript values.  Every value is a record of the same shape, so that  *)
(* values of different types can be compared:                              *)
(*   k  the type: "undefined" "null" "bool" "num" "str" "arr" "obj"        *)
(*   s  the code units of a string                                         *)
(*   n  the integer part of a number, z whether the number is zero         *)
(*   b  the boolean                                                        *)
(*   m  the elements of an array / the members <<key, value>> of an object *)

JUndefined == [k |-> "undefined", s |-> <<>>, n |-> 0, z |-> TRUE, b |-> FALSE, m |-> <<>>]
JNull      == [JUndefined EXCEPT !.k = "null"]
JBool(x)   == [JUndefined EXCEPT !.k = "bool", !.b = x]
JNum(x)    == [JUndefined EXCEPT !.k = "num", !.n = x, !.z = (x = 0)]
JStr(x)    == [JUndefined EXCEPT !.k = "str", !.s = x]
JArr(x)    == [JUndefined EXCEPT !.k = "arr", !.m = x]
JObj(x)    == [JUndefined EXCEPT !.k = "obj", !.m = x]

IsStr(v) == v.k = "str"

\* ToBoolean
Truthy(v) ==
    CASE v.k = "undefined" -> FALSE
      [] v.k = "null"      -> FALSE
      [] v.k = "bool"      -> v.b
      [] v.k = "num"       -> ~v.z
      [] v.k = "str"       -> v.s # <<>>
      [] OTHER             -> TRUE

\* Property read  payload.<name>  on a value that is neither null nor
\* undefined: an own member of an object (the last of equal keys, as
\* JSON.parse keeps it), undefined on anything else.
GetMember(v, name) ==
    IF v.k = "obj" /\ \E j \in 1..Len(v.m) : v.m[j][1] = name
    THEN v.m[CHOOSE j \in 1..Len(v.m) :
                 v.m[j][1] = name /\ \A q \in (j+1)..Len(v.m) : v.m[q][1] # name][2]
    ELSE JUndefined

RECURSIVE DecimalDigits(_)
DecimalDigits(n) ==
    IF n < 10 THEN <<48 + n>> ELSE Append(DecimalDigits(n \div 10), 48 + (n % 10))

\* JSToString, as the + operator applies it to a non-string operand
RECURSIVE JSToString(_)
JSToString(v) ==
    CASE v.k = "str"       -> v.s
      [] v.k = "undefined" -> <<117, 110, 100, 101, 102, 105, 110, 101, 100>>  \* "undefined"
      [] v.k = "null"      -> <<110, 117, 108, 108>>                           \* "null"
      [] v.k = "bool"      -> IF v.b THEN <<116, 114, 117, 101>>               \* "true"
                                     ELSE <<102, 97, 108, 115, 101>>           \* "false"
      [] v.k = "num"       -> IF v.n < 0 THEN <<45>> \o DecimalDigits(-v.n)
                                         ELSE DecimalDigits(v.n)
      [] v.k = "arr"       -> Flatten([j \in 1..Len(v.m) |->
                                 (IF j > 1 THEN <<44>> ELSE <<>>)
                                 \o (IF v.m[j].k \in {"null", "undefined"}
                                     THEN <<>> ELSE JSToString(v.m[j]))])
      [] OTHER             -> <<91, 111, 98, 106, 101, 99, 116, 32,
                                79, 98, 106, 101, 99, 116, 93>>                \* "[object Object]"

---------------------------------------------------------------------------
(* JSON.stringify of an object whose members are strings or undefined, and *)
(* JSON.parse (ECMA-404 grammar).                                          *)

HexDigit(v) == IF v < 10 THEN 48 + v ELSE 97 + (v - 10)

HexVal(c) ==
    IF c \in 48..57 THEN c - 48
    ELSE IF c \in 97..102 THEN c - 97 + 10
    ELSE IF c \in 65..70 THEN c - 65 + 10
    ELSE -1

\* QuoteJSONString
QuoteJSONString(str) ==
    <<34>> \o
    Flatten([j \in 1..Len(str) |->
        LET c == str[j]
        IN  CASE c = 34 -> <<92, 34>>
              [] c = 92 -> <<92, 92>>
              [] c = 8  -> <<92, 98>>
              [] c = 9  -> <<92, 116>>
              [] c = 10 -> <<92, 110>>
              [] c = 12 -> <<92, 102>>
              [] c = 13 -> <<92, 114>>
              [] c < 32 /\ c \notin {8, 9, 10, 12, 13}
                        -> <<92, 117, 48, 48, HexDigit(c \div 16), HexDigit(c % 16)>>
              [] OTHER  -> <<c>>])
    \o <<34>>

\* JSON.stringify(obj): members in insertion order, a member whose value is
\* undefined is left out
JSONStringify(obj) ==
    LET kept == SelectSeq(obj.m, LAMBDA kv : kv[2].k # "undefined")
    IN  <<123>> \o
        Flatten([j \in 1..Len(kept) |->
            (IF j > 1 THEN <<44>> ELSE <<>>)
            \o QuoteJSONString(kept[j][1]) \o <<58>> \o QuoteJSONString(kept[j][2].s)])
        \o <<125>>

ParseFail == [ok |-> FALSE, v |-> JUndefined, p |-> 0]
ParseOk(val, next) == [ok |-> TRUE, v |-> val, p |-> next]

IsJsonWs(c) == c \in {32, 9, 10, 13}
IsDigit(c) == c \in 48..57

RECURSIVE SkipWs(_, _)
SkipWs(s, p) == IF p <= Len(s) /\ IsJsonWs(s[p]) THEN SkipWs(s, p + 1) ELSE p

RECURSIVE DigitsEnd(_, _)
DigitsEnd(s, p) == IF p <= Len(s) /\ IsDigit(s[p]) THEN DigitsEnd(s, p + 1) ELSE p

RECURSIVE DigitsValue(_, _, _)
DigitsValue(s, p, q) ==
    IF q <= p THEN 0 ELSE DigitsValue(s, p, q - 1) * 10 + (s[q - 1] - 48)

CharAt(s, p) == IF p \in 1..Len(s) THEN s[p] ELSE -1

\* number: -? (0 | [1-9][0-9]*) (. [0-9]+)? ([eE] [+-]? [0-9]+)?
\* The value kept is the integer part (at most nine digits of it).
ParseNumber(s, p) ==
    LET neg   == CharAt(s, p) = 45
        i0    == IF neg THEN p + 1 ELSE p
        i1    == IF CharAt(s, i0) = 48 THEN i0 + 1 ELSE DigitsEnd(s, i0)
        hasF  == CharAt(s, i1) = 46
        f1    == IF hasF THEN DigitsEnd(s, i1 + 1) ELSE i1
        hasE  == CharAt(s, f1) \in {101, 69}
        e0    == IF hasE /\ CharAt(s, f1 + 1) \in {43, 45} THEN f1 + 2 ELSE f1 + 1
        e1    == IF hasE THEN DigitsEnd(s, e0) ELSE f1
        zero  == \A j \in i0..(f1 - 1) : s[j] \in {48, 46}
        mag   == DigitsValue(s, i0, IF i1 - i0 > 9 THEN i0 + 9 ELSE i1)
    IN  IF i1 = i0 \/ (hasF /\ f1 = i1 + 1) \/ (hasE /\ e1 = e0)
        THEN ParseFail
        ELSE ParseOk([JNum(IF neg THEN -mag ELSE mag) EXCEPT !.z = zero], e1)

\* the characters of a string after its opening quote
RECURSIVE ParseString(_, _, _)
ParseString(s, p, acc) ==
    LET c == CharAt(s, p)
        e == CharAt(s, p + 1)
    IN  IF c = -1 \/ (c >= 0 /\ c < 32) THEN ParseFail
        ELSE IF c = 34 THEN ParseOk(JStr(acc), p + 1)
        ELSE IF c # 92 THEN ParseString(s, p + 1, Append(acc, c))
        ELSE IF e \in {34, 92, 47} THEN ParseString(s, p + 2, Append(acc, e))
        ELSE IF e = 98  THEN ParseString(s, p + 2, Append(acc, 8))
        ELSE IF e = 102 THEN ParseString(s, p + 2, Append(acc, 12))
        ELSE IF e = 110 THEN ParseString(s, p + 2, Append(acc, 10))
        ELSE IF e = 114 THEN ParseString(s, p + 2, Append(acc, 13))
        ELSE IF e = 116 THEN ParseString(s, p + 2, Append(acc, 9))
        ELSE IF e = 117 /\ \A j \in (p + 2)..(p + 5) : HexVal(CharAt(s, j)) >= 0
             THEN ParseString(s, p + 6,
                      Append(acc, HexVal(s[p + 2]) * 4096 + HexVal(s[p + 3]) * 256
                                  + HexVal(s[p + 4]) * 16 + HexVal(s[p + 5])))
        ELSE ParseFail

RECURSIVE ParseValue(_, _), ParseMembers(_, _, _), ParseElements(_, _, _)

ParseValue(s, p0) ==
    LET p == SkipWs(s, p0)
        c == CharAt(s, p)
    IN  CASE c = 123 ->
               IF CharAt(s, SkipWs(s, p + 1)) = 125
               THEN ParseOk(JObj(<<>>), SkipWs(s, p + 1) + 1)
               ELSE ParseMembers(s, p + 1, <<>>)
          [] c = 91 ->
               IF CharAt(s, SkipWs(s, p + 1)) = 93
               THEN ParseOk(JArr(<<>>), SkipWs(s, p + 1) + 1)
               ELSE ParseElements(s, p + 1, <<>>)
          [] c = 34 -> ParseString(s, p + 1, <<>>)
          [] c = 116 -> IF Len(s) >= p + 3 /\ SubSeq(s, p, p + 3) = <<116, 114, 117, 101>>
                        THEN ParseOk(JBool(TRUE), p + 4) ELSE ParseFail
          [] c = 102 -> IF Len(s) >= p + 4 /\ SubSeq(s, p, p + 4) = <<102, 97, 108, 115, 101>>
                        THEN ParseOk(JBool(FALSE), p + 5) ELSE ParseFail
          [] c = 110 -> IF Len(s) >= p + 3 /\ SubSeq(s, p, p + 3) = <<110, 117, 108, 108>>
                        THEN ParseOk(JNull, p + 4) ELSE ParseFail
          [] c = 45 \/ IsDigit(c) -> ParseNumber(s, p)
          [] OTHER -> ParseFail

\* one member  "key" : value  then , or }
ParseMembers(s, p0, acc) ==
    LET p   == SkipWs(s, p0)
        key == IF CharAt(s, p) = 34 THEN ParseString(s, p + 1, <<>>) ELSE ParseFail
        c   == IF key.ok THEN SkipWs(s, key.p) ELSE 0
        val == IF key.ok /\ CharAt(s, c) = 58 THEN ParseValue(s, c + 1) ELSE ParseFail
        q   == IF val.ok THEN SkipWs(s, val.p) ELSE 0
        mem == Append(acc, <<key.v.s, val.v>>)
    IN  IF ~val.ok THEN ParseFail
        ELSE IF CharAt(s, q) = 44 THEN ParseMembers(s, q + 1, mem)
        ELSE IF CharAt(s, q) = 125 THEN ParseOk(JObj(mem), q + 1)
        ELSE ParseFail

\* one element then , or ]
ParseElements(s, p0, acc) ==
    LET val == ParseValue(s, p0)
        q   == IF val.ok THEN SkipWs(s, val.p) ELSE 0
        els == Append(acc, val.v)
    IN  IF ~val.ok THEN ParseFail
        ELSE IF CharAt(s, q) = 44 THEN ParseElements(s, q + 1, els)
        ELSE IF CharAt(s, q) = 93 THEN ParseOk(JArr(els), q + 1)
        ELSE ParseFail

\* JSON.parse(text); ok = FALSE when it throws SyntaxError
JSONParse(text) ==
    LET r == ParseValue(text, 1)
    IN  IF r.ok /\ SkipWs(text, r.p) > Len(text) THEN r ELSE ParseFail

---------------------------------------------------------------------------
(* Date.  A time value is [nan, day, ms]: the day number since 1970-01-01  *)
(* and the millisecond within that day (UTC); nan marks an Invalid Date.   *)

MS_PER_DAY == 86400000
MS_PER_MINUTE == 60000
\* TimeClip: a time value is at most 8.64e15 ms = 100,000,000 days from the epoch
MAX_DAY == 100000000
\* 23:59:59.000 as a millisecond of the day
END_OF_DAY_MS == 86399000

InvalidDate == [nan |-> TRUE, day |-> 0, ms |-> 0]
TimeValue(d, m) == [nan |-> FALSE, day |-> d, ms |-> m]

\* a < b on time values (both valid)
TimeBefore(a, b) == a.day < b.day \/ (a.day = b.day /\ a.ms < b.ms)

IsLeap(y) == (y % 4 = 0 /\ y % 100 # 0) \/ y % 400 = 0

DaysInMonth(y, m) ==
    IF m = 2 THEN (IF IsLeap(y) THEN 29 ELSE 28)
    ELSE IF m \in {4, 6, 9, 11} THEN 30 ELSE 31

\* day number of the civil date y-m-d (proleptic Gregorian, y >= 0)
DaysFromCivil(y, m, d) ==
    LET yy  == IF m <= 2 THEN y - 1 ELSE y
        era == yy \div 400
        yoe == yy - era * 400
        mp  == IF m > 2 THEN m - 3 ELSE m + 9
        doy == (153 * mp + 2) \div 5 + d - 1
        doe == yoe * 365 + yoe \div 4 - yoe \div 100 + doy
    IN  era * 146097 + doe - 719468

CivilFromDays(z0) ==
    LET z   == z0 + 719468
        era == z \div 146097
        doe == z - era * 146097
        yoe == (doe - doe \div 1460 + doe \div 36524 - doe \div 146096) \div 365
        doy == doe - (365 * yoe + yoe \div 4 - yoe \div 100)
        mp  == (5 * doy + 2) \div 153
        d   == doy - (153 * mp + 2) \div 5 + 1
        m   == IF mp < 10 THEN mp + 3 ELSE mp - 9
    IN  [y |-> yoe + era * 400 + (IF m <= 2 THEN 1 ELSE 0), m |-> m, d |-> d]

\* MakeDay(year, month, date) with month 0-based and unbounded: the months
\* carry into the year, the date runs over into the following month
MakeDay(year, month, date) ==
    DaysFromCivil(year + month \div 12, (month % 12) + 1, 1) + date - 1

\* a time value moved by a number of minutes
AddMinutes(t, minutes) ==
    LET total == t.ms + minutes * MS_PER_MINUTE
    IN  TimeValue(t.day + total \div MS_PER_DAY, total % MS_PER_DAY)

TimeClip(t) == IF t.day > MAX_DAY \/ t.day < -MAX_DAY THEN InvalidDate ELSE t

\* expiry.setMonth(expiry.getMonth() + months): local-time fields, the
\* host's offset from UTC being offsetMinutes
SetMonthPlus(t, months, offsetMinutes) ==
    LET local == AddMinutes(t, offsetMinutes)
        civ   == CivilFromDays(local.day)
        day2  == MakeDay(civ.y, (civ.m - 1) + months, civ.d)
    IN  TimeClip(AddMinutes(TimeValue(day2, local.ms), -offsetMinutes))

\* n as exactly w decimal digits
RECURSIVE PadDigits(_, _)
PadDigits(n, w) == IF w = 0 THEN <<>> ELSE Append(PadDigits(n \div 10, w - 1), 48 + (n % 10))

\* the date part of Date.prototype.toISOString(): YYYY-MM-DD, or the
\* expanded year +YYYYYY-MM-DD outside 0..9999
IsoDatePart(t) ==
    LET civ == CivilFromDays(t.day)
    IN  (IF civ.y \in 0..9999 THEN PadDigits(civ.y, 4)
         ELSE <<(IF civ.y < 0 THEN 45 ELSE 43)>> \o PadDigits(IF civ.y < 0 THEN -civ.y ELSE civ.y, 6))
        \o <<45>> \o PadDigits(civ.m, 2) \o <<45>> \o PadDigits(civ.d, 2)

AllDigits(s) == \A j \in 1..Len(s) : IsDigit(s[j])

T235959Z == <<84, 50, 51, 58, 53, 57, 58, 53, 57, 90>>   \* "T23:59:59Z"

\* new Date(text) for text = <date> "T23:59:59Z", by the Date Time String
\* Format: <date> is YYYY, YYYY-MM or YYYY-MM-DD, the year four digits or a
\* sign and six.  The result is a set: a day of the month that the month
\* does not have (02-30) is an Invalid Date in some engines and runs over
\* into the next month in others.  Text outside the format is taken to be an
\* Invalid Date.
DateParse(text) ==
    LET n     == Len(text) - Len(T235959Z)
        date  == SubSeq(text, 1, n)
        ylen  == IF n >= 1 /\ date[1] \in {43, 45} THEN 7 ELSE 4
        ydig  == IF ylen = 7 THEN SubSeq(date, 2, 7) ELSE SubSeq(date, 1, 4)
        rest  == SubSeq(date, ylen + 1, n)
        shape == /\ n >= ylen
                 /\ AllDigits(ydig)
                 /\ ~(ylen = 7 /\ date[1] = 45 /\ DigitsValue(ydig, 1, 7) = 0)
                 /\ Len(rest) \in {0, 3, 6}
                 /\ Len(rest) >= 3 => (rest[1] = 45 /\ AllDigits(SubSeq(rest, 2, 3)))
                 /\ Len(rest) = 6 => (rest[4] = 45 /\ AllDigits(SubSeq(rest, 5, 6)))
        y     == (IF ylen = 7 /\ date[1] = 45 THEN -1 ELSE 1) * DigitsValue(ydig, 1, Len(ydig) + 1)
        m     == IF Len(rest) >= 3 THEN DigitsValue(rest, 2, 4) ELSE 1
        d     == IF Len(rest) = 6 THEN DigitsValue(rest, 5, 7) ELSE 1
        t     == TimeClip(TimeValue(DaysFromCivil(y, m, 1) + d - 1, END_OF_DAY_MS))
    IN  IF n < 0 \/ SubSeq(text, n + 1, Len(text)) # T235959Z THEN {InvalidDate}
        ELSE IF ~shape \/ m \notin 1..12 \/ d \notin 1..31 \/ y < 0 THEN {InvalidDate}
        ELSE IF d > DaysInMonth(y, m) THEN {InvalidDate, t}
        ELSE {t}

---------------------------------------------------------------------------
(* domainMatches                                                           *)

\* String.prototype.toLowerCase on ASCII and Latin-1 letters
ToLowerChar(c) ==
    IF c \in 65..90 THEN c + 32
    ELSE IF c \in 192..222 /\ c # 215 THEN c + 32
    ELSE c

toLowerCase(s) == [j \in 1..Len(s) |-> ToLowerChar(s[j])]

LOCALHOST == <<108, 111, 99, 97, 108, 104, 111, 115, 116>>   \* "localhost"
LOOPBACK  == <<49, 50, 55, 46, 48, 46, 48, 46, 49>>          \* "127.0.0.1"
WWW_DOT   == <<119, 119, 119, 46>>                           \* "www."

\* variant: the arguments compared as given, without lowercasing
domainMatchesDropCase(licenseDomain, hostname) == licenseDomain = hostname

\* variant: any subdomain of the license domain matches
domainMatchesSuffix(licenseDomain, hostname) ==
    LET ld == toLowerCase(licenseDomain)
        hn == toLowerCase(hostname)
    IN  \/ ld = hn
        \/ (ld = LOCALHOST /\ (hn = LOCALHOST \/ hn = LOOPBACK))
        \/ (Len(hn) > Len(ld) /\ SubSeq(hn, Len(hn) - Len(ld), Len(hn)) = <<46>> \o ld)
        \/ ld = WWW_DOT \o hn

domainMatches(licenseDomain, hostname) ==
    LET ld == toLowerCase(licenseDomain)
        hn == toLowerCase(hostname)
    IN  IF ld = hn THEN TRUE
        ELSE IF ld = LOCALHOST /\ (hn = LOCALHOST \/ hn = LOOPBACK) THEN TRUE
        ELSE IF hn = WWW_DOT \o ld THEN TRUE
        ELSE IF ld = WWW_DOT \o hn THEN TRUE
        ELSE FALSE

---------------------------------------------------------------------------
(* ECDSA P-256 with SHA-256, idealised.  A key pair is a number; the       *)
(* signature of a message is a function of the private key, the message    *)
(* digest and the signer's random nonce, SIG_LEN bytes long (r || s), and  *)
(* verification accepts exactly the signatures the matching private key    *)
(* can produce for that message.                                           *)

SIG_LEN == 64

\* the key pair whose public half is the PUBLIC_KEY constant of license.ts
PUBLIC_KEY == 1

Nonces == {0, 1}

\* the message digest: a position-weighted sum, so that messages that
\* differ in one character, or in the order of their characters, differ in it
RECURSIVE DigestRange(_, _, _)
DigestRange(data, lo, hi) ==
    IF lo > hi THEN 0
    ELSE IF lo = hi THEN (data[lo] * (2 * lo + 1)) % 65536
    ELSE (DigestRange(data, lo, (lo + hi) \div 2)
          + DigestRange(data, (lo + hi) \div 2 + 1, hi)) % 65536

Digest(data) == (7 + DigestRange(data, 1, Len(data))) % 65536

\* crypto.sign('SHA256', data, {key, dsaEncoding: 'ieee-p1363'})
CryptoSign(key, data, nonce) ==
    LET h == Digest(data)
    IN  [j \in 1..SIG_LEN |->
            ((IF j % 2 = 1 THEN h % 256 ELSE h \div 256) * (2 * j + 1)
             + 17 * key + 29 * nonce + j) % 256]

\* crypto.subtle.verify({name: 'ECDSA', hash: 'SHA-256'}, key, signature, data)
CryptoVerify(key, signature, data) ==
    \E nonce \in Nonces : signature = CryptoSign(key, data, nonce)

---------------------------------------------------------------------------
(* The issuer: scripts/generate-license.ts                                 *)

OPT_DOMAIN   == <<45, 45, 100, 111, 109, 97, 105, 110>>   \* "--domain"
OPT_D        == <<45, 100>>                               \* "-d"
OPT_MONTHS   == <<45, 45, 109, 111, 110, 116, 104, 115>>  \* "--months"
OPT_M        == <<45, 109>>                               \* "-m"
OPT_TIER     == <<45, 45, 116, 105, 101, 114>>            \* "--tier"
OPT_T        == <<45, 116>>                               \* "-t"
OPT_HELP     == <<45, 45, 104, 101, 108, 112>>            \* "--help"
OPT_H        == <<45, 104>>                               \* "-h"
TIER_DEFAULT == <<112, 114, 111>>                         \* "pro"
MONTHS_DEFAULT == 12

\* a number that may be NaN
NaN == [nan |-> TRUE, n |-> 0]
Num(x) == [nan |-> FALSE, n |-> x]

IsStrWhiteSpace(c) == c \in {9, 10, 11, 12, 13, 32, 160}

RECURSIVE SkipStrWs(_, _)
SkipStrWs(s, p) == IF p <= Len(s) /\ IsStrWhiteSpace(s[p]) THEN SkipStrWs(s, p + 1) ELSE p

\* the digits of parseInt's input s from d0 on (at most nine are read)
ParseIntDigits(s, neg, d0, d1) ==
    IF d1 = d0 THEN NaN
    ELSE Num((IF neg THEN -1 ELSE 1) * DigitsValue(s, d0, IF d1 - d0 > 9 THEN d0 + 9 ELSE d1))

ParseIntFrom(s, p) ==
    ParseIntDigits(s, CharAt(s, p) = 45,
                   IF CharAt(s, p) \in {43, 45} THEN p + 1 ELSE p,
                   DigitsEnd(s, IF CharAt(s, p) \in {43, 45} THEN p + 1 ELSE p))

ParseIntString(s) == ParseIntFrom(s, SkipStrWs(s, 1))

\* parseInt(v, 10): leading white space, a sign, then the longest run of
\* digits; NaN if there is none
parseInt(v) == ParseIntString(JSToString(v))

\* args[i] (1-based here), undefined past the end
ArgAt(args, i) == IF i \in 1..Len(args) THEN JStr(args[i]) ELSE JUndefined

\* the for loop of parseArgs from index i on; help = TRUE when the loop
\* ended in process.exit(0)
RECURSIVE ParseArgsLoop(_, _, _)
ParseArgsLoop(args, i, st) ==
    IF i > Len(args) THEN st
    ELSE IF args[i] \in {OPT_DOMAIN, OPT_D}
      THEN ParseArgsLoop(args, i + 2, [st EXCEPT !.domain = ArgAt(args, i + 1)])
    ELSE IF args[i] \in {OPT_MONTHS, OPT_M}
      THEN ParseArgsLoop(args, i + 2, [st EXCEPT !.months = parseInt(ArgAt(args, i + 1))])
    ELSE IF args[i] \in {OPT_TIER, OPT_T}
      THEN ParseArgsLoop(args, i + 2, [st EXCEPT !.tier = ArgAt(args, i + 1)])
    ELSE IF args[i] \in {OPT_HELP, OPT_H}
      THEN [st EXCEPT !.help = TRUE]
    ELSE ParseArgsLoop(args, i + 1, st)

\* lines 57-67 of parseArgs, after the loop
ParseArgsCheck(st) ==
    [domain |-> st.domain, months |-> st.months, tier |-> st.tier, help |-> st.help,
     exit |-> IF st.help THEN 0
              ELSE IF ~Truthy(st.domain) THEN 1
              ELSE IF st.months.nan \/ st.months.n < 1 THEN 1
              ELSE -1]

\* parseArgs: exit is the status of process.exit, -1 when it returns
parseArgs(args) ==
    ParseArgsCheck(ParseArgsLoop(args, 1,
        [domain |-> JStr(<<>>), months |-> Num(MONTHS_DEFAULT),
         tier |-> JStr(TIER_DEFAULT), help |-> FALSE]))

\* Buffer.prototype.toString('hex')
BufferToHex(data) ==
    Flatten([j \in 1..Len(data) |-> <<HexDigit(data[j] \div 16), HexDigit(data[j] % 16)>>])

ID_PREFIX == <<97, 119, 95>>   \* "aw_"
ID_BYTES == 8
AW_PREFIX == <<65, 87, 45>>    \* "AW-"

KEY_D == <<100>>   \* "d"
KEY_E == <<101>>   \* "e"
KEY_T == <<116>>   \* "t"
KEY_I == <<105>>   \* "i"

\* A11Y_PRIVATE_KEY: k is "absent", "empty", "badjson" (not JSON) or
\* "json"; key is the key pair a JSON value holds the private half of, 0
\* when the JSON is no usable EC private key
EnvAbsent  == [k |-> "absent", key |-> 0]
EnvEmpty   == [k |-> "empty", key |-> 0]
EnvBadJson == [k |-> "badjson", key |-> 0]
EnvJwk(id) == [k |-> "json", key |-> id]

Line(tag, text) == [tag |-> tag, text |-> text]

\* what one run of the script leaves behind: the exit status, the lines on
\* stdout, whether stderr was written, and the license key when one was built
IssuerResult(code, out, err, key) ==
    [exit |-> code, stdout |-> out, stderr |-> err, licenseKey |-> key]

\* lines 140-158: the summary, the key and the usage example on stdout
MainOutput(a, expiryStr, licenseId, licenseKey) ==
    IssuerResult(0,
        << Line("blank", <<>>), Line("banner", <<>>), Line("blank", <<>>),
           Line("Domain", a.domain.s), Line("Expiry", expiryStr),
           Line("Tier", JSToString(a.tier)), Line("ID", licenseId),
           Line("blank", <<>>), Line("License Key:", <<>>),
           Line("key", licenseKey), Line("blank", <<>>),
           Line("--- Usage ---", <<>>), Line("blank", <<>>),
           Line("HTML:", <<>>), Line("script", licenseKey),
           Line("blank", <<>>), Line("WordPress", <<>>), Line("blank", <<>>) >>,
        FALSE, licenseKey)

\* lines 130-138: sign the base64url string and assemble the key
MainSign(a, key, expiryStr, licenseId, payloadB64, nonce) ==
    MainOutput(a, expiryStr, licenseId,
        AW_PREFIX \o payloadB64 \o <<CH_DOT>>
        \o base64urlEncode(CryptoSign(key, Utf8Encode(payloadB64), nonce)))

\* lines 112-121: the payload {d, e, t, i}, serialized and encoded
PayloadB64For(a, expiryStr, licenseId) ==
    base64urlEncode(Utf8Encode(JSONStringify(
        JObj(<< <<KEY_D, JStr(toLowerCase(a.domain.s))>>,
                <<KEY_E, JStr(expiryStr)>>,
                <<KEY_T, a.tier>>,
                <<KEY_I, JStr(licenseId)>> >>))))

\* variant: the payload is written to stdout before the private key is
\* imported
MainBuildPrintsPayloadFirst(a, privateKeyEnv, expiry, licenseId, nonce) ==
    IF expiry.nan THEN IssuerResult(1, <<>>, TRUE, <<>>)
    ELSE IF privateKeyEnv.key = 0
    THEN IssuerResult(1, <<Line("key", AW_PREFIX \o PayloadB64For(a, IsoDatePart(expiry), licenseId))>>,
                      TRUE, <<>>)
    ELSE MainSign(a, privateKeyEnv.key, IsoDatePart(expiry), licenseId,
                  PayloadB64For(a, IsoDatePart(expiry), licenseId), nonce)

\* lines 104-127, once the expiry date is computed
MainBuild(a, privateKeyEnv, expiry, licenseId, nonce) ==
    IF expiry.nan THEN IssuerResult(1, <<>>, TRUE, <<>>)              \* toISOString throws RangeError
    ELSE IF privateKeyEnv.key = 0 THEN IssuerResult(1, <<>>, TRUE, <<>>)   \* createPrivateKey throws
    ELSE MainSign(a, privateKeyEnv.key, IsoDatePart(expiry), licenseId,
                  PayloadB64For(a, IsoDatePart(expiry), licenseId), nonce)

\* variant: createPrivateKey is tried again twice after it fails
KeyImportsRetry(a, privateKeyEnv) ==
    IF a.help \/ a.exit # -1 THEN 0
    ELSE IF privateKeyEnv.k # "json" THEN 0
    ELSE IF privateKeyEnv.key = 0 THEN 3
    ELSE 1

\* how many times a run calls crypto.createPrivateKey (lines 124-127): once,
\* when parseArgs returns and the environment variable parses as JSON
KeyImports(a, privateKeyEnv) ==
    IF a.help \/ a.exit # -1 THEN 0
    ELSE IF privateKeyEnv.k # "json" THEN 0
    ELSE 1

\* main once parseArgs has returned its record a
MainParsed(a, privateKeyEnv, t, offsetMinutes, rnd, nonce) ==
    IF a.help THEN IssuerResult(0, <<Line("usage", <<>>)>>, FALSE, <<>>)
    ELSE IF a.exit # -1 THEN IssuerResult(a.exit, <<>>, TRUE, <<>>)
    ELSE IF privateKeyEnv.k \in {"absent", "empty"} THEN IssuerResult(1, <<>>, TRUE, <<>>)
    ELSE IF privateKeyEnv.k = "badjson" THEN IssuerResult(1, <<>>, TRUE, <<>>)
    ELSE MainBuild(a, privateKeyEnv, SetMonthPlus(t, a.months.n, offsetMinutes),
                   ID_PREFIX \o BufferToHex(rnd), nonce)

\* main() with main().catch: args, the environment variable, the wall clock,
\* the host's offset from UTC, the bytes crypto.randomBytes returns and the
\* signer's nonce
main(args, privateKeyEnv, t, offsetMinutes, rnd, nonce) ==
    MainParsed(parseArgs(args), privateKeyEnv, t, offsetMinutes, rnd, nonce)

---------------------------------------------------------------------------
(* The verifier: validateLicense of src/license.ts.  The function runs in  *)
(* three stretches, separated by its two awaits (crypto.subtle.importKey   *)
(* and crypto.subtle.verify).  Each stretch yields                         *)
(*   r = "return" with val, "throw", or "await".                           *)

Returned(val, w) == [r |-> "return", val |-> val, warned |-> w]
Thrown           == [r |-> "throw", val |-> FALSE, warned |-> FALSE]
Awaiting         == [r |-> "await", val |-> FALSE, warned |-> FALSE]

\* keyBody = licenseKey.slice(3)
KeyBody(licenseKey) == SubSeq(licenseKey, 4, Len(licenseKey))

\* payloadB64 = keyBody.slice(0, lastDotIndex)
PayloadB64Of(licenseKey) ==
    LET keyBody == KeyBody(licenseKey)
    IN  SubSeq(keyBody, 1, LastIndexOf(keyBody, CH_DOT))

\* signatureB64 = keyBody.slice(lastDotIndex + 1)
SignatureB64Of(licenseKey) ==
    LET keyBody == KeyBody(licenseKey)
    IN  SubSeq(keyBody, LastIndexOf(keyBody, CH_DOT) + 2, Len(keyBody))

\* payload = JSON.parse(new TextDecoder().decode(base64urlDecode(payloadB64)))
PayloadOf(payloadB64) == JSONParse(Utf8Decode(base64urlDecode(payloadB64).bytes))

\* variant: the tier is not required
FieldsMissingExceptTier(payload) ==
    \/ ~Truthy(GetMember(payload, KEY_D))
    \/ ~Truthy(GetMember(payload, KEY_E))
    \/ ~Truthy(GetMember(payload, KEY_I))

\* !payload.d || !payload.e || !payload.t || !payload.i
FieldsMissing(payload) ==
    \/ ~Truthy(GetMember(payload, KEY_D))
    \/ ~Truthy(GetMember(payload, KEY_E))
    \/ ~Truthy(GetMember(payload, KEY_T))
    \/ ~Truthy(GetMember(payload, KEY_I))

\* lines 117-129: the required fields, then the first await
ValidatePayload(parsed) ==
    IF ~parsed.ok THEN Returned(FALSE, FALSE)                    \* inner catch
    ELSE IF parsed.v.k = "null" THEN Thrown                      \* payload.d
    ELSE IF FieldsMissing(parsed.v) THEN Returned(FALSE, FALSE)
    ELSE Awaiting

\* lines 107-115: decode and parse the payload
ValidateDecoded(decoded) ==
    IF ~decoded.ok THEN Thrown                                   \* atob
    ELSE ValidatePayload(JSONParse(Utf8Decode(decoded.bytes)))

\* lines 99-104
ValidateSegments(payloadB64, signatureB64) ==
    IF payloadB64 = <<>> \/ signatureB64 = <<>> THEN Returned(FALSE, FALSE)
    ELSE ValidateDecoded(base64urlDecode(payloadB64))

\* variant: the prefix looked at before Web Crypto
ValidateStartPrefixFirst(licenseKey, cryptoAvailable) ==
    IF ~IsStr(licenseKey) THEN Thrown
    ELSE IF ~StartsWith(licenseKey.s, AW_PREFIX) THEN Returned(FALSE, FALSE)
    ELSE IF ~cryptoAvailable THEN Returned(FALSE, TRUE)
    ELSE IF LastIndexOf(KeyBody(licenseKey.s), CH_DOT) = -1 THEN Returned(FALSE, FALSE)
    ELSE ValidateSegments(PayloadB64Of(licenseKey.s), SignatureB64Of(licenseKey.s))

\* from the call to the first await (lines 76-129)
ValidateStart(licenseKey, cryptoAvailable) ==
    IF ~cryptoAvailable THEN Returned(FALSE, TRUE)
    ELSE IF ~IsStr(licenseKey) THEN Thrown                       \* licenseKey.startsWith
    ELSE IF ~StartsWith(licenseKey.s, AW_PREFIX) THEN Returned(FALSE, FALSE)
    ELSE IF LastIndexOf(KeyBody(licenseKey.s), CH_DOT) = -1 THEN Returned(FALSE, FALSE)
    ELSE ValidateSegments(PayloadB64Of(licenseKey.s), SignatureB64Of(licenseKey.s))

\* from importKey's result to the second await (lines 131-141)
ValidateAfterImport(signatureB64) ==
    IF ~base64urlDecode(signatureB64).ok THEN Thrown ELSE Awaiting

\* variant: the signature checked over the payload serialized again in the
\* issuer's member order
CanonicalPayload(payload) ==
    JObj(<< <<KEY_D, GetMember(payload, KEY_D)>>, <<KEY_E, GetMember(payload, KEY_E)>>,
            <<KEY_T, GetMember(payload, KEY_T)>>, <<KEY_I, GetMember(payload, KEY_I)>> >>)

DataToVerifyCanonical(payloadB64) ==
    Utf8Encode(base64urlEncode(Utf8Encode(JSONStringify(CanonicalPayload(PayloadOf(payloadB64).v)))))

\* dataToVerify = new TextEncoder().encode(payloadB64)
DataToVerify(payloadB64) == Utf8Encode(payloadB64)

\* isSignatureValid, the value crypto.subtle.verify resolves to
IsSignatureValid(payloadB64, signatureB64) ==
    CryptoVerify(PUBLIC_KEY, base64urlDecode(signatureB64).bytes, DataToVerify(payloadB64))

\* variant: expiryDate <= new Date()
ExpiredInclusive(expiryDate, t) == ~TimeBefore(t, expiryDate)

\* variant: the times of day compared, the dates left out
ExpiredByTimeOfDay(expiryDate, t) == expiryDate.ms < t.ms

\* expiryDate < new Date()
Expired(expiryDate, t) == TimeBefore(expiryDate, t)

\* new Date(payload.e + 'T23:59:59Z'): the values it can have
ExpiryDates(payload) == DateParse(JSToString(GetMember(payload, KEY_E)) \o T235959Z)

\* from verify's result to the end (lines 143-158), expiryDate being the
\* value of new Date(payload.e + 'T23:59:59Z') and t that of new Date()
ValidateAfterVerify(isSignatureValid, payload, hostname, expiryDate, t) ==
    IF ~isSignatureValid THEN Returned(FALSE, FALSE)
    ELSE IF ~IsStr(GetMember(payload, KEY_D)) THEN Thrown      \* licenseDomain.toLowerCase
    ELSE IF ~IsStr(hostname) THEN Thrown                       \* hostname.toLowerCase
    ELSE IF ~domainMatches(GetMember(payload, KEY_D).s, hostname.s) THEN Returned(FALSE, FALSE)
    ELSE IF expiryDate.nan \/ Expired(expiryDate, t) THEN Returned(FALSE, FALSE)
    ELSE Returned(TRUE, FALSE)

\* The checks an invocation evaluates, in the order it evaluates them, named
\* after what they look at: "crypto" (lines 78-86), "prefix" (89), "split"
\* (94-95), "segments" (102), "decode" (107), "parse" (112), "fields" (118),
\* "importKey" (123), "sigDecode" (133), "verify" (136), "signature" (143),
\* "domain" (148), "expiry" (153-154).  A check that throws was evaluated.
PayloadSteps(parsed) ==
    IF ~parsed.ok THEN <<"parse">>
    ELSE IF parsed.v.k = "null" THEN <<"parse", "fields">>
    ELSE IF FieldsMissing(parsed.v) THEN <<"parse", "fields">>
    ELSE <<"parse", "fields", "importKey">>

DecodedSteps(decoded) ==
    IF ~decoded.ok THEN <<"decode">>
    ELSE <<"decode">> \o PayloadSteps(JSONParse(Utf8Decode(decoded.bytes)))

SegmentsSteps(payloadB64, signatureB64) ==
    IF payloadB64 = <<>> \/ signatureB64 = <<>> THEN <<"segments">>
    ELSE <<"segments">> \o DecodedSteps(base64urlDecode(payloadB64))

\* the checks of the first stretch (lines 76-129)
StartSteps(licenseKey, cryptoAvailable) ==
    IF ~cryptoAvailable THEN <<"crypto">>
    ELSE IF ~IsStr(licenseKey) THEN <<"crypto", "prefix">>
    ELSE IF ~StartsWith(licenseKey.s, AW_PREFIX) THEN <<"crypto", "prefix">>
    ELSE IF LastIndexOf(KeyBody(licenseKey.s), CH_DOT) = -1 THEN <<"crypto", "prefix", "split">>
    ELSE <<"crypto", "prefix", "split">>
         \o SegmentsSteps(PayloadB64Of(licenseKey.s), SignatureB64Of(licenseKey.s))

\* the checks of the second stretch (lines 131-141)
AfterImportSteps(signatureB64) ==
    IF ~base64urlDecode(signatureB64).ok THEN <<"sigDecode">> ELSE <<"sigDecode", "verify">>

\* variant: the domain compared before the result of verify is looked at
AfterVerifyStepsDomainFirst(isSignatureValid, payload, hostname) ==
    IF ~IsStr(GetMember(payload, KEY_D)) \/ ~IsStr(hostname) THEN <<"domain">>
    ELSE IF ~domainMatches(GetMember(payload, KEY_D).s, hostname.s) THEN <<"domain">>
    ELSE IF ~isSignatureValid THEN <<"domain", "signature">>
    ELSE <<"domain", "signature", "expiry">>

\* the checks of the last stretch (lines 143-158)
AfterVerifySteps(isSignatureValid, payload, hostname) ==
    IF ~isSignatureValid THEN <<"signature">>
    ELSE IF ~IsStr(GetMember(payload, KEY_D)) \/ ~IsStr(hostname) THEN <<"signature", "domain">>
    ELSE IF ~domainMatches(GetMember(payload, KEY_D).s, hostname.s) THEN <<"signature", "domain">>
    ELSE <<"signature", "domain", "expiry">>

\* variant: without the catch block, an exception rejects the promise
SettleNoCatch(res) ==
    IF res.r = "throw" THEN "rejected" ELSE IF res.val THEN "true" ELSE "false"

\* variant: the failure to find Web Crypto told apart from the other failures
SettleReportsWarning(res) ==
    IF res.r = "throw" THEN "false"
    ELSE IF res.val THEN "true"
    ELSE IF res.warned THEN "unavailable"
    ELSE "false"

\* how the promise settles when a stretch ends: the catch block of line 159
\* turns every exception into false
Settle(res) ==
    IF res.r = "throw" THEN "false" ELSE IF res.val THEN "true" ELSE "false"

\* lines 143-158 as a function of the inputs
ValidateTail(payloadB64, signatureB64, payload, hostname, t) ==
    { Settle(ValidateAfterVerify(IsSignatureValid(payloadB64, signatureB64),
                                 payload, hostname, expiryDate, t)) :
        expiryDate \in ExpiryDates(payload) }

\* lines 131-158 as a function of the inputs
ValidateFromImport(payloadB64, signatureB64, payload, hostname, t) ==
    IF ValidateAfterImport(signatureB64).r # "await"
    THEN {Settle(ValidateAfterImport(signatureB64))}
    ELSE ValidateTail(payloadB64, signatureB64, payload, hostname, t)

\* validateLicense(licenseKey, hostname) as a function of its inputs, the
\* platform and the clock: the values the promise can settle with
validateLicense(licenseKey, hostname, cryptoAvailable, t) ==
    IF ValidateStart(licenseKey, cryptoAvailable).r # "await"
    THEN {Settle(ValidateStart(licenseKey, cryptoAvailable))}
    ELSE ValidateFromImport(PayloadB64Of(licenseKey.s), SignatureB64Of(licenseKey.s),
                            PayloadOf(PayloadB64Of(licenseKey.s)).v, hostname, t)

---------------------------------------------------------------------------
(* The page loader (standalone.tsx, init)                                  *)

\* scriptTag?.getAttribute('data-license-key') || window.__A11Y_LICENSE_KEY__
ConfiguredKey(scriptAttr, globalKey) ==
    IF Truthy(scriptAttr) THEN scriptAttr ELSE globalKey

\* the page p once init knows licenseKey: it returns with a warning, or
\* calls validateLicense(licenseKey, window.location.hostname) and awaits
InitWithKey(p, licenseKey) ==
    IF ~Truthy(licenseKey)
    THEN [p EXCEPT !.pc = "done", !.licenseKey = licenseKey, !.warned = TRUE]
    ELSE [p EXCEPT !.pc = "awaitValidate", !.licenseKey = licenseKey,
                   !.validateCalls = p.validateCalls + 1,
                   !.validatedHostname = p.hostname]

\* init up to its await (lines 44-62)
InitStart(p) == InitWithKey(p, ConfiguredKey(p.scriptAttr, p.globalKey))

\* variant: a container is made without looking for one
RenderWidgetInNewContainer(p) ==
    [p EXCEPT !.containerCreated = TRUE,
              !.containerInDom = TRUE,
              !.rendered = TRUE]

\* the container is looked up or made, and the widget is rendered in it
\* (lines 70-79)
RenderWidget(p) ==
    [p EXCEPT !.containerCreated = ~p.containerInDom,
              !.containerInDom = TRUE,
              !.rendered = TRUE]

\* variant: the widget is rendered whatever validateLicense resolved to
InitAfterValidateRendersAlways(p, isValid) ==
    RenderWidget([p EXCEPT !.pc = "done", !.isValid = IF isValid THEN "true" ELSE "false"])

\* init from the value validateLicense resolved to (lines 62-79)
InitAfterValidate(p, isValid) ==
    IF ~isValid
    THEN [p EXCEPT !.pc = "done", !.isValid = "false", !.warned = TRUE]
    ELSE RenderWidget([p EXCEPT !.pc = "done", !.isValid = "true"])

\* the calls of init that are made on one document
InitIds == {1, 2, 3}

\* a call of init is at its await on the document l
SomeInitAwaits(l) == \E id \in InitIds : l.inits[id].pc = "awaitValidate"

\* the call id of init begins on the document l (lines 44-62)
InitBegins(l, id) ==
    [l EXCEPT !.inits[id] = InitStart(l.inits[id]),
              !.overlapped = l.overlapped \/ SomeInitAwaits(l)]

\* the call p after its await, on a document with so many containers:
\* document.getElementById('a11y-widget-root') finds one or none
InitResumed(p, containers, isValid) ==
    InitAfterValidate([p EXCEPT !.containerInDom = containers > 0], isValid)

\* the document l once the call id of init has run from its await to its
\* end (lines 62-79); nothing else runs between the lookup of the
\* container and appendChild
InitEnds(l, id, isValid) ==
    [l EXCEPT !.inits[id] = InitResumed(l.inits[id], l.containers, isValid),
              !.containers = l.containers +
                  (IF InitResumed(l.inits[id], l.containers, isValid).containerCreated
                   THEN 1 ELSE 0),
              !.roots = l.roots +
                  (IF InitResumed(l.inits[id], l.containers, isValid).rendered THEN 1 ELSE 0)]

---------------------------------------------------------------------------
(* The widget's keyboard shortcuts (useAccessibilitySettings.ts)           *)

\* defaultSettings; ttsRate in tenths
defaultSettings ==
    [textSize |-> "100", highContrast |-> FALSE, reduceMotion |-> FALSE,
     highlightLinks |-> FALSE, lineHeight |-> FALSE, dyslexiaFont |-> FALSE,
     bigCursor |-> FALSE, readingGuide |-> FALSE, colorBlindnessMode |-> "none",
     focusIndicator |-> [enabled |-> FALSE, thickness |-> "4px", color |-> "#E5B94E",
                         style |-> "solid"],
     ttsEnabled |-> FALSE, ttsRate |-> 10]

\* a keydown event: e.altKey, e.code, and of e.target tagName and
\* isContentEditable
KeyboardEvent(altKey, code, tagName, isContentEditable) ==
    [altKey |-> altKey, code |-> code, tagName |-> tagName,
     isContentEditable |-> isContentEditable]

NoEvent == KeyboardEvent(FALSE, "", "", FALSE)

\* handleToggle of the widget: setIsOpen((prev) => !prev)
togglePanel(k) == [k EXCEPT !.isOpen = ~k.isOpen, !.called = "togglePanel"]

\* setSettings((prev) => ({ ...prev, [key]: !prev[key] }))
toggleSetting(k, key) ==
    [k EXCEPT !.settings[key] = ~k.settings[key], !.called = "toggleSetting"]

\* setSettings(defaultSettings); setAnnouncement(...)
resetSettings(k) ==
    [k EXCEPT !.settings = defaultSettings,
              !.announcement = "All accessibility settings reset",
              !.called = "resetSettings"]

\* e.preventDefault()
preventDefault(k) == [k EXCEPT !.prevented = TRUE]

\* the switch on e.code
HandleCode(k, code) ==
    CASE code = "KeyA" -> togglePanel(preventDefault(k))
      [] code = "KeyC" -> toggleSetting(preventDefault(k), "highContrast")
      [] code = "KeyM" -> toggleSetting(preventDefault(k), "reduceMotion")
      [] code = "KeyR" -> resetSettings(preventDefault(k))
      [] OTHER -> k

\* the target is an input field
InInputField(e) ==
    e.tagName = "INPUT" \/ e.tagName = "TEXTAREA" \/ e.isContentEditable

\* variant: the shortcuts also act while the user types in a field
handleKeyDownAnyTarget(k, e) ==
    IF ~e.altKey THEN k ELSE HandleCode(k, e.code)

\* handleKeyDown, the listener the hook puts on window
handleKeyDown(k, e) ==
    IF ~e.altKey THEN k
    ELSE IF InInputField(e) THEN k
    ELSE HandleCode(k, e.code)

---------------------------------------------------------------------------
(* The settings hook (useAccessibilitySettings)                            *)

\* Object.keys(defaultSettings), in order
SettingKeys ==
    <<"textSize", "highContrast", "reduceMotion", "highlightLinks", "lineHeight",
      "dyslexiaFont", "bigCursor", "readingGuide", "colorBlindnessMode",
      "focusIndicator", "ttsEnabled", "ttsRate">>

\* classMap for the settings that are plain booleans
BooleanClass(key) ==
    CASE key = "highContrast" -> "a11y-high-contrast"
      [] key = "reduceMotion" -> "a11y-reduce-motion"
      [] key = "highlightLinks" -> "a11y-highlight-links"
      [] key = "lineHeight" -> "a11y-line-height"
      [] key = "dyslexiaFont" -> "a11y-dyslexia-font"
      [] key = "bigCursor" -> "a11y-big-cursor"
      [] key = "readingGuide" -> "a11y-reading-guide"

\* the class the loop over Object.entries(settings) adds for key, "" when
\* it adds none
ClassFor(key, value) ==
    CASE key = "textSize" -> IF value # "100" THEN "a11y-text-" \o value ELSE ""
      [] key = "colorBlindnessMode" -> IF value # "none" THEN "a11y-" \o value ELSE ""
      [] key \in {"focusIndicator", "ttsEnabled", "ttsRate"} -> ""
      [] OTHER -> IF value = TRUE THEN BooleanClass(key) ELSE ""

\* classList.add
ClassListAdd(list, cls) ==
    IF \E j \in 1..Len(list) : list[j] = cls THEN list ELSE Append(list, cls)

\* the list without its k-th token
WithoutIndex(list, k) == SubSeq(list, 1, k - 1) \o SubSeq(list, k + 1, Len(list))

\* variant: the tokens are copied first and each copy is looked at
RECURSIVE RemoveA11yOverCopy(_, _, _)
RemoveA11yOverCopy(list, k, len) ==
    IF Len(list) = 0 THEN list
    ELSE IF StartsWith(list[1], "a11y-") THEN RemoveA11yOverCopy(Tail(list), k, len)
    ELSE <<list[1]>> \o RemoveA11yOverCopy(Tail(list), k, len)

\* body.classList.forEach((cls) => { if (cls.startsWith('a11y-'))
\* body.classList.remove(cls) }): forEach of a DOMTokenList is
\* Array.prototype.forEach, which takes the length once and then visits
\* the indices k, k+1, ... of the live list, passing over those the list
\* no longer has
RECURSIVE RemoveA11yClasses(_, _, _)
RemoveA11yClasses(list, k, len) ==
    IF k > len THEN list
    ELSE IF k > Len(list) THEN RemoveA11yClasses(list, k + 1, len)
    ELSE IF StartsWith(list[k], "a11y-")
         THEN RemoveA11yClasses(WithoutIndex(list, k), k + 1, len)
    ELSE RemoveA11yClasses(list, k + 1, len)

\* the loop over Object.entries(settings), from the k-th key on
RECURSIVE AddSettingClasses(_, _, _)
AddSettingClasses(list, settings, k) ==
    IF k > Len(SettingKeys) THEN list
    ELSE IF ClassFor(SettingKeys[k], settings[SettingKeys[k]]) = ""
         THEN AddSettingClasses(list, settings, k + 1)
    ELSE AddSettingClasses(ClassListAdd(list, ClassFor(SettingKeys[k], settings[SettingKeys[k]])),
                           settings, k + 1)

\* the class of the focus indicator
AddFocusClass(list, settings) ==
    IF settings.focusIndicator.enabled THEN ClassListAdd(list, "a11y-focus-custom") ELSE list

\* body.classList once the effect has removed and added classes
AppliedClasses(list, settings) ==
    AddFocusClass(AddSettingClasses(RemoveA11yClasses(list, 1, Len(list)), settings, 1),
                  settings)

\* the three CSS variables of the focus indicator on body.style
NoFocusVars == [set |-> FALSE, thickness |-> "", color |-> "", style |-> ""]

AppliedFocusVars(settings) ==
    IF settings.focusIndicator.enabled
    THEN [set |-> TRUE, thickness |-> settings.focusIndicator.thickness,
          color |-> settings.focusIndicator.color, style |-> settings.focusIndicator.style]
    ELSE NoFocusVars

\* getAnnouncementMessage(key, value)
getAnnouncementMessage(key, value) ==
    CASE key = "textSize" -> "Text size changed to " \o value \o " percent"
      [] key = "highContrast" -> IF value THEN "High contrast enabled" ELSE "High contrast disabled"
      [] key = "reduceMotion" -> IF value THEN "Animations reduced" ELSE "Animations restored"
      [] key = "highlightLinks" -> IF value THEN "Links highlighted" ELSE "Link highlighting disabled"
      [] key = "lineHeight" -> IF value THEN "Line height increased" ELSE "Line height reset"
      [] key = "dyslexiaFont" -> IF value THEN "Dyslexia-friendly font enabled" ELSE "Default font restored"
      [] key = "bigCursor" -> IF value THEN "Large cursor enabled" ELSE "Default cursor restored"
      [] key = "readingGuide" -> IF value THEN "Reading guide enabled" ELSE "Reading guide disabled"
      [] key = "colorBlindnessMode" ->
            IF value = "none" THEN "Color blindness filter disabled"
            ELSE value \o " color blindness filter enabled"
      [] key = "focusIndicator" ->
            IF value.enabled THEN "Custom focus indicator enabled"
            ELSE "Default focus indicator restored"
      [] key = "ttsEnabled" -> IF value THEN "Text-to-speech enabled" ELSE "Text-to-speech disabled"
      [] OTHER -> ""

\* the announcement after the loop over Object.keys(settings) from the
\* k-th key on: each changed key with a message calls setAnnouncement
RECURSIVE AnnouncedFrom(_, _, _, _)
AnnouncedFrom(announcement, settings, prevSettings, k) ==
    IF k > Len(SettingKeys) THEN announcement
    ELSE IF settings[SettingKeys[k]] = prevSettings[SettingKeys[k]]
         THEN AnnouncedFrom(announcement, settings, prevSettings, k + 1)
    ELSE IF getAnnouncementMessage(SettingKeys[k], settings[SettingKeys[k]]) = ""
         THEN AnnouncedFrom(announcement, settings, prevSettings, k + 1)
    ELSE AnnouncedFrom(getAnnouncementMessage(SettingKeys[k], settings[SettingKeys[k]]),
                       settings, prevSettings, k + 1)

\* the 'a11y-settings' entry of localStorage: absent, a text that is no
\* JSON, the text null, or the text of an object v
StorageEntry(k, v) == [k |-> k, v |-> v]

NoObject == [none |-> TRUE]

StorageAbsent == StorageEntry("absent", NoObject)

\* { ...defaultSettings.focusIndicator, ...(parsed.focusIndicator || {}) }
MergedFocus(parsed) ==
    IF "focusIndicator" \notin DOMAIN parsed THEN defaultSettings.focusIndicator
    ELSE [f \in DOMAIN defaultSettings.focusIndicator \cup DOMAIN parsed.focusIndicator |->
            IF f \in DOMAIN parsed.focusIndicator THEN parsed.focusIndicator[f]
            ELSE defaultSettings.focusIndicator[f]]

\* { ...defaultSettings, ...parsed, focusIndicator: ... }
Merged(parsed) ==
    [key \in DOMAIN defaultSettings \cup DOMAIN parsed |->
        IF key = "focusIndicator" THEN MergedFocus(parsed)
        ELSE IF key \in DOMAIN parsed THEN parsed[key]
        ELSE defaultSettings[key]]

\* the effect that loads the settings on mount (lines 101-123): a text
\* that does not parse, and null, whose focusIndicator cannot be read, end
\* in the catch block
LoadEffect(h) ==
    IF h.storage.k = "object"
    THEN [h EXCEPT !.settings = Merged(h.storage.v), !.isDefaultObject = FALSE,
                   !.prevSettings = Merged(h.storage.v),
                   !.isLoaded = TRUE, !.hasRead = TRUE]
    ELSE [h EXCEPT !.isLoaded = TRUE, !.hasRead = TRUE,
                   !.loadFailed = h.storage.k \in {"invalid", "null"}]

\* variant: the settings are saved whether they were loaded or not
ApplyEffectUnguarded(h, settings, isLoaded) ==
    [h EXCEPT !.body = AppliedClasses(h.body, settings),
              !.focusVars = AppliedFocusVars(settings),
              !.storage = StorageEntry("object", settings),
              !.wroteBeforeRead = h.wroteBeforeRead \/ ~h.hasRead,
              !.announcement = AnnouncedFrom(h.announcement, settings, h.prevSettings, 1),
              !.prevSettings = settings]

\* the effect that applies the settings (lines 125-192): classes, CSS
\* variables, the entry of localStorage, the announcements.  settings and
\* isLoaded are the values of the render the effect belongs to; body,
\* localStorage and prevSettingsRef.current are read as they are when it
\* runs.
ApplyEffect(h, settings, isLoaded) ==
    IF ~isLoaded THEN h
    ELSE [h EXCEPT !.body = AppliedClasses(h.body, settings),
                   !.focusVars = AppliedFocusVars(settings),
                   !.storage = StorageEntry("object", settings),
                   !.wroteBeforeRead = h.wroteBeforeRead \/ ~h.hasRead,
                   !.announcement = AnnouncedFrom(h.announcement, settings, h.prevSettings, 1),
                   !.prevSettings = settings]

\* the effect on announcement (lines 194-200), rendered being the
\* announcement of the render it belongs to: the timer of the render before
\* is cleared, and one is set when there is an announcement
AnnouncementEffect(h, rendered) == [h EXCEPT !.timer = rendered]

\* setSettings with a new object: the effect on settings is due
SettingsSet(h) == [h EXCEPT !.isDefaultObject = FALSE, !.applyDue = TRUE]

\* updateSetting(key, value)
updateSetting(h, key, value) ==
    [h EXCEPT !.settings[key] = value, !.called = "updateSetting"]

\* variant: the rate is stored as it is given
setTTSRateAsGiven(h, rate) ==
    [h EXCEPT !.settings.ttsRate = rate, !.called = "setTTSRate"]

\* setTTSRate(rate), in tenths: Math.max(0.5, Math.min(2.0, rate))
setTTSRate(h, rate) ==
    [h EXCEPT !.settings.ttsRate = IF rate > 20 THEN 20 ELSE IF rate < 5 THEN 5 ELSE rate,
              !.called = "setTTSRate"]

---------------------------------------------------------------------------
(* The WordPress plugin (accessibility-widget.php, version 1.1.0)          *)

A11Y_WIDGET_VERSION == "1.1.0"

A11Y_WIDGET_CDN_BASE ==
    "https://cdn.jsdelivr.net/npm/@krunalshah/accessibility-widget-standalone@latest"

\* variant: only '' is empty
emptyText(s) == s = ""

\* PHP's empty() of a string: '' and '0' are empty
empty(s) == s = "" \/ s = "0"

\* where search begins in subject
Occurrences(search, subject) ==
    { i \in 1..(Len(subject) - Len(search) + 1) :
        SubSeq(subject, i, i + Len(search) - 1) = search }

\* the least of a set of numbers that is not empty
Least(S) == CHOOSE i \in S : \A j \in S : i <= j

\* PHP's str_replace(search, replace, subject): every occurrence, from
\* the left, what was replaced not being searched again
RECURSIVE str_replace(_, _, _)
str_replace(search, replace, subject) ==
    IF Len(search) = 0 \/ Occurrences(search, subject) = {} THEN subject
    ELSE SubSeq(subject, 1, Least(Occurrences(search, subject)) - 1)
         \o replace
         \o str_replace(search, replace,
                        SubSeq(subject, Least(Occurrences(search, subject)) + Len(search),
                               Len(subject)))

\* WordPress's esc_attr of a text without entities: the five characters
\* that are special in an attribute become entities, & first
esc_attr(s) ==
    str_replace("'", "&#039;",
        str_replace("\"", "&quot;",
            str_replace(">", "&gt;",
                str_replace("<", "&lt;",
                    str_replace("&", "&amp;", s)))))

\* an entry of WordPress's queue of styles or of scripts
Enqueued(handle, src, version, in_footer) ==
    [handle |-> handle, src |-> src, ver |-> version, in_footer |-> in_footer]

\* a11y_widget_enqueue_scripts(), w being the plugin's view of WordPress:
\* the option, the queues
a11y_widget_enqueue_scripts(w) ==
    IF empty(w.option) THEN [w EXCEPT !.enqueued = TRUE]
    ELSE [w EXCEPT !.enqueued = TRUE,
                   !.styles = w.styles \cup
                       {Enqueued("akby-a11y-widget-css",
                                 A11Y_WIDGET_CDN_BASE \o "/dist/accessibility.css",
                                 A11Y_WIDGET_VERSION, FALSE)},
                   !.scripts = w.scripts \cup
                       {Enqueued("akby-a11y-widget-js",
                                 A11Y_WIDGET_CDN_BASE \o "/dist/standalone.global.js",
                                 A11Y_WIDGET_VERSION, TRUE)}]

\* the tag with the attribute, license_key being the escaped option
TagWithKey(tag, license_key) ==
    IF empty(license_key) THEN tag
    ELSE str_replace(" src=", " data-license-key=\"" \o license_key \o "\" src=", tag)

\* variant: the attribute is put on the tag of every script
a11y_widget_script_attributes_any(tag, handle, src, option) ==
    TagWithKey(tag, esc_attr(option))

\* a11y_widget_script_attributes($tag, $handle, $src), the filter on
\* script_loader_tag; option is what get_option returns
a11y_widget_script_attributes(tag, handle, src, option) ==
    IF handle # "akby-a11y-widget-js" THEN tag
    ELSE TagWithKey(tag, esc_attr(option))

---------------------------------------------------------------------------
(* Inputs of the model                                                     *)

\* how many characters from each end of a segment are open to tampering
MaxTamper == 1

\* the length of the byte arrays given to base64urlEncode
MaxBytes == 3

DOMAIN_ARG == <<65, 46, 99, 111>>   \* "A.co"
ONE        == <<49>>               \* "1"

\* argument lists of the issuer
ArgLists ==
    { <<OPT_DOMAIN, DOMAIN_ARG, OPT_MONTHS, ONE>>,
      <<OPT_D, DOMAIN_ARG>>,
      <<OPT_DOMAIN, DOMAIN_ARG, OPT_M, ONE, OPT_TIER, <<>> >>,
      <<OPT_DOMAIN, DOMAIN_ARG, OPT_MONTHS, ONE, OPT_T>>,
      <<OPT_MONTHS, ONE>>,
      <<OPT_DOMAIN, DOMAIN_ARG, OPT_HELP>> }

\* A11Y_PRIVATE_KEY: unset, the private half of PUBLIC_KEY, another key
Envs == {EnvAbsent, EnvJwk(PUBLIC_KEY), EnvJwk(PUBLIC_KEY + 1)}

TzOffsets == {0, 330}

\* crypto.randomBytes(8)
RandomBytes == { <<0, 0, 0, 0, 0, 0, 0, 0>>, <<1, 35, 69, 103, 137, 171, 205, 239>> }

\* 2025-01-15T12:00:00.000Z, when the issuer runs
IssueTime == TimeValue(DaysFromCivil(2025, 1, 15), 43200000)

\* the instants the clock can move to: around the end of 2025-02-15
ClockPoints ==
    { TimeValue(DaysFromCivil(2025, 2, 15), 86398000),
      TimeValue(DaysFromCivil(2025, 2, 15), 86399000),
      TimeValue(DaysFromCivil(2025, 2, 15), 86399001),
      TimeValue(DaysFromCivil(2025, 2, 16), 0),
      TimeValue(DaysFromCivil(2025, 2, 16), 1000) }

\* window.location.hostname, and a value that is no string
Hostnames ==
    { JStr(DOMAIN_ARG),
      JStr(<<119, 119, 119, 46, 97, 46, 99, 111>>),    \* "www.a.co"
      JStr(<<115, 117, 98, 46, 97, 46, 99, 111>>),    \* "sub.a.co"
      JNum(5) }

\* where a presented key comes from
Src(kind, name, seg, pos, ch) == [kind |-> kind, name |-> name, seg |-> seg, pos |-> pos, ch |-> ch]

Candidate(src, key) == [src |-> src, key |-> key]

B64UrlChar(v) == IF v = 62 THEN CH_MINUS ELSE IF v = 63 THEN CH_UNDER ELSE B64Char(v)
B64UrlVal(c) == IF c = CH_MINUS THEN 62 ELSE IF c = CH_UNDER THEN 63 ELSE B64Val(c)

\* the characters put in the place of character c: one that differs from c
\* in the low four bits of its value, one that differs in the high two
TamperChars(c) ==
    LET v == B64UrlVal(c)
    IN  { B64UrlChar((v \div 16) * 16 + ((v + 1) % 16)), B64UrlChar((v + 16) % 64) }

TamperPositions(n) == { j \in 1..n : j <= MaxTamper \/ j > n - MaxTamper }

\* licenseKey with the character at pos (1-based) of a segment replaced
TamperedKey(licenseKey, seg, pos, ch) ==
    LET at == IF seg = "payload" THEN Len(AW_PREFIX) + pos
              ELSE Len(AW_PREFIX) + Len(PayloadB64Of(licenseKey)) + 1 + pos
    IN  [licenseKey EXCEPT ![at] = ch]

\* the payload of licenseKey serialized again with its members in the order
\* i, t, e, d, under the signature segment of licenseKey
ReorderedPayload(payload) ==
    JObj(<< <<KEY_I, GetMember(payload, KEY_I)>>, <<KEY_T, GetMember(payload, KEY_T)>>,
            <<KEY_E, GetMember(payload, KEY_E)>>, <<KEY_D, GetMember(payload, KEY_D)>> >>)

ReorderedKey(licenseKey) ==
    AW_PREFIX
    \o base64urlEncode(Utf8Encode(JSONStringify(ReorderedPayload(PayloadOf(PayloadB64Of(licenseKey)).v))))
    \o <<CH_DOT>> \o SignatureB64Of(licenseKey)

\* a key over any payload text, signed with the private half of key pair k
SignB64(payloadB64, k) ==
    AW_PREFIX \o payloadB64 \o <<CH_DOT>>
    \o base64urlEncode(CryptoSign(k, Utf8Encode(payloadB64), 0))

SignedKey(payloadText, k) == SignB64(base64urlEncode(Utf8Encode(payloadText)), k)

\* a key over any payload text with a signature segment that is no signature
UnsignedKey(payloadText) ==
    AW_PREFIX \o base64urlEncode(Utf8Encode(payloadText)) \o <<CH_DOT>> \o <<65, 65, 65, 65>>

TXT_WELL_FORMED == <<123, 34, 100, 34, 58, 34, 97, 46, 99, 111, 34, 44, 34, 101, 34, 58, 34, 50, 48, 50, 53, 45, 48, 50, 45, 49, 53, 34, 44, 34, 116, 34, 58, 34, 112, 114, 111, 34, 44, 34, 105, 34, 58, 34, 120, 34, 125>>
    \* {"d":"a.co","e":"2025-02-15","t":"pro","i":"x"}
TXT_NO_I == <<123, 34, 100, 34, 58, 34, 97, 46, 99, 111, 34, 44, 34, 101, 34, 58, 34, 50, 48, 50, 53, 45, 48, 50, 45, 49, 53, 34, 44, 34, 116, 34, 58, 34, 112, 114, 111, 34, 125>>
    \* {"d":"a.co","e":"2025-02-15","t":"pro"}
TXT_D_NUMBER == <<123, 34, 100, 34, 58, 53, 44, 34, 101, 34, 58, 34, 50, 48, 50, 54, 45, 48, 49, 45, 49, 53, 34, 44, 34, 116, 34, 58, 34, 112, 114, 111, 34, 44, 34, 105, 34, 58, 34, 120, 34, 125>>
    \* {"d":5,"e":"2026-01-15","t":"pro","i":"x"}
TXT_E_NEVER == <<123, 34, 100, 34, 58, 34, 97, 46, 99, 111, 34, 44, 34, 101, 34, 58, 34, 110, 101, 118, 101, 114, 34, 44, 34, 116, 34, 58, 34, 112, 114, 111, 34, 44, 34, 105, 34, 58, 34, 120, 34, 125>>
    \* {"d":"a.co","e":"never","t":"pro","i":"x"}
TXT_E_FEB30 == <<123, 34, 100, 34, 58, 34, 97, 46, 99, 111, 34, 44, 34, 101, 34, 58, 34, 50, 48, 50, 53, 45, 48, 50, 45, 51, 48, 34, 44, 34, 116, 34, 58, 34, 112, 114, 111, 34, 44, 34, 105, 34, 58, 34, 120, 34, 125>>
    \* {"d":"a.co","e":"2025-02-30","t":"pro","i":"x"}
TXT_E_NUMBER == <<123, 34, 100, 34, 58, 34, 97, 46, 99, 111, 34, 44, 34, 101, 34, 58, 50, 48, 50, 54, 44, 34, 116, 34, 58, 34, 112, 114, 111, 34, 44, 34, 105, 34, 58, 34, 120, 34, 125>>
    \* {"d":"a.co","e":2026,"t":"pro","i":"x"}
TXT_NOT_JSON == <<110, 111, 116, 32, 106, 115, 111, 110>>   \* not json
TXT_NULL == <<110, 117, 108, 108>>   \* null
TXT_FIVE == <<53>>   \* 5

\* keys that do not come from a run of the issuer
CraftedKeys ==
    { Candidate(Src("crafted", "not a string", "", 0, 0), JNum(12345)),
      Candidate(Src("crafted", "empty", "", 0, 0), JStr(<<>>)),
      Candidate(Src("crafted", "no prefix", "", 0, 0), JStr(<<88, 88, 45, 97, 98, 99, 100, 46, 101, 102, 103, 104>>)),       \* "XX-abcd.efgh"
      Candidate(Src("crafted", "no dot", "", 0, 0), JStr(<<65, 87, 45, 97, 98, 99, 100, 101, 102>>)),             \* "AW-abcdef"
      Candidate(Src("crafted", "no payload", "", 0, 0), JStr(<<65, 87, 45, 46, 97, 98, 99, 100>>)),          \* "AW-.abcd"
      Candidate(Src("crafted", "no signature", "", 0, 0), JStr(<<65, 87, 45, 97, 98, 99, 100, 46>>)),        \* "AW-abcd."
      Candidate(Src("crafted", "payload not base64", "", 0, 0), JStr(<<65, 87, 45, 97, 46, 97, 98, 99, 100>>)), \* "AW-a.abcd"
      Candidate(Src("crafted", "payload not JSON", "", 0, 0), JStr(UnsignedKey(TXT_NOT_JSON))),
      Candidate(Src("crafted", "payload null", "", 0, 0), JStr(UnsignedKey(TXT_NULL))),
      Candidate(Src("crafted", "payload number", "", 0, 0), JStr(UnsignedKey(TXT_FIVE))),
      Candidate(Src("crafted", "payload without i", "", 0, 0), JStr(UnsignedKey(TXT_NO_I))),
      Candidate(Src("crafted", "signature not base64", "", 0, 0),
                JStr(SubSeq(UnsignedKey(TXT_WELL_FORMED), 1, Len(UnsignedKey(TXT_WELL_FORMED)) - 3))),
      Candidate(Src("crafted", "not signed", "", 0, 0), JStr(UnsignedKey(TXT_WELL_FORMED))),
      Candidate(Src("crafted", "two dots", "", 0, 0),
                JStr(UnsignedKey(TXT_WELL_FORMED) \o <<CH_DOT, 65, 65, 65, 65>>)),
      Candidate(Src("crafted", "dot at the end", "", 0, 0),
                JStr(UnsignedKey(TXT_WELL_FORMED) \o <<CH_DOT>>)),
      Candidate(Src("crafted", "signed by another key", "", 0, 0),
                JStr(SignedKey(TXT_WELL_FORMED, PUBLIC_KEY + 1))),
      Candidate(Src("signed", "well formed", "", 0, 0), JStr(SignedKey(TXT_WELL_FORMED, PUBLIC_KEY))),
      Candidate(Src("signed", "d a number", "", 0, 0), JStr(SignedKey(TXT_D_NUMBER, PUBLIC_KEY))),
      Candidate(Src("signed", "e never", "", 0, 0), JStr(SignedKey(TXT_E_NEVER, PUBLIC_KEY))),
      Candidate(Src("signed", "e 2025-02-30", "", 0, 0), JStr(SignedKey(TXT_E_FEB30, PUBLIC_KEY))),
      Candidate(Src("signed", "e a number", "", 0, 0), JStr(SignedKey(TXT_E_NUMBER, PUBLIC_KEY))) }

\* licenseKey with one character of a segment replaced by another
TamperedKeys(licenseKey, seg) ==
    LET segment == IF seg = "payload" THEN PayloadB64Of(licenseKey) ELSE SignatureB64Of(licenseKey)
    IN  UNION { { Candidate(Src("tampered", "", seg, pos, ch), JStr(TamperedKey(licenseKey, seg, pos, ch))) :
                    ch \in TamperChars(segment[pos]) } :
                pos \in TamperPositions(Len(segment)) }

\* keys made from the key a run of the issuer printed
DerivedKeys(licenseKey) ==
    IF licenseKey = <<>> THEN {}
    ELSE {Candidate(Src("issued", "", "", 0, 0), JStr(licenseKey)),
          Candidate(Src("reordered", "", "", 0, 0), JStr(ReorderedKey(licenseKey)))}
         \cup TamperedKeys(licenseKey, "payload")
         \cup TamperedKeys(licenseKey, "signature")

\* argument lists for runs of the issuer on its own
IssuerArgLists ==
    ArgLists \cup
    { <<>>,
      <<OPT_DOMAIN, <<>>, OPT_MONTHS, ONE>>,                      \* --domain "" --months 1
      <<OPT_DOMAIN, DOMAIN_ARG, OPT_MONTHS, <<48>>>>,             \* --months 0
      <<OPT_DOMAIN, DOMAIN_ARG, OPT_MONTHS, <<45, 50>>>>,         \* --months -2
      <<OPT_DOMAIN, DOMAIN_ARG, OPT_MONTHS, <<97, 98, 99>>>>,     \* --months abc
      <<OPT_DOMAIN, DOMAIN_ARG, OPT_MONTHS, <<49, 46, 53>>>>,     \* --months 1.5
      <<OPT_DOMAIN, DOMAIN_ARG, OPT_MONTHS, <<51, 120>>>>,        \* --months 3x
      <<OPT_DOMAIN, DOMAIN_ARG, OPT_MONTHS>>,                     \* --months without a value
      <<OPT_DOMAIN, DOMAIN_ARG, OPT_MONTHS, <<49, 51>>>>,         \* --months 13
      <<OPT_H>>,
      <<OPT_MONTHS, <<97, 98, 99>>, OPT_H>>,                      \* --months abc -h
      <<OPT_DOMAIN, OPT_HELP>>,                                   \* --domain --help
      <<OPT_DOMAIN, DOMAIN_ARG, OPT_T, OPT_H>> }                  \* --domain A.co -t -h

\* A11Y_PRIVATE_KEY: unset, empty, not JSON, JSON that is no private key
\* (createPrivateKey throws), and two private keys
IssuerEnvs == {EnvAbsent, EnvEmpty, EnvBadJson, EnvJwk(0), EnvJwk(PUBLIC_KEY), EnvJwk(PUBLIC_KEY + 1)}

\* when the issuer runs: 2025-01-15T12:00Z, 2025-01-31T12:00Z, 2025-02-28T23:30Z
IssueTimes ==
    { IssueTime,
      TimeValue(DaysFromCivil(2025, 1, 31), 43200000),
      TimeValue(DaysFromCivil(2025, 2, 28), 84600000) }

\* keys presented by invocations in flight together
ConcKeys ==
    { c \in CraftedKeys :
        c.src.name \in {"not a string", "no prefix", "signature not base64", "not signed",
                        "well formed", "d a number"} }

ConcHostnames == { JStr(DOMAIN_ARG), JStr(<<115, 117, 98, 46, 97, 46, 99, 111>>) }

\* the clock just before and just after the end of 2025-02-15
ConcClock ==
    { TimeValue(DaysFromCivil(2025, 2, 15), 86399000), TimeValue(DaysFromCivil(2025, 2, 16), 0) }

\* the data-license-key attribute: absent, empty, or a key
ScriptAttrs ==
    {JNull, JStr(<<>>)}
    \cup { c.key : c \in { k \in CraftedKeys :
                             k.src.name \in {"no prefix", "not signed", "well formed"} } }

\* window.__A11Y_LICENSE_KEY__: not set, a number, or a key
GlobalKeys ==
    {JUndefined, JNum(12345)}
    \cup { c.key : c \in { k \in CraftedKeys : k.src.name \in {"well formed", "e never"} } }

\* when the page loads: before and after the expiry of the well formed key
LoadTimes == {IssueTime, TimeValue(DaysFromCivil(2025, 2, 16), 0)}

\* keydown events: the four shortcut keys and another key, on a field, a
\* text area, a plain element and a content-editable element
KeyEvents ==
    { KeyboardEvent(altKey, code, tagName, isContentEditable) :
        altKey \in BOOLEAN, code \in {"KeyA", "KeyC", "KeyM", "KeyR", "KeyB"},
        tagName \in {"INPUT", "TEXTAREA", "DIV"}, isContentEditable \in BOOLEAN }

\* the settings the widget starts with: the defaults, or what an earlier
\* visit left in localStorage
StoredSettings ==
    { [defaultSettings EXCEPT !.highContrast = hc, !.reduceMotion = rm,
                              !.highlightLinks = hl, !.textSize = ts] :
        hc \in BOOLEAN, rm \in BOOLEAN, hl \in BOOLEAN, ts \in {"100", "150"} }

\* what an earlier visit, another version of the widget or the user left in
\* the 'a11y-settings' entry of localStorage
HookStorages ==
    { StorageAbsent,
      StorageEntry("invalid", NoObject),
      StorageEntry("null", NoObject),
      StorageEntry("object", [highContrast |-> TRUE, reduceMotion |-> TRUE]),
      StorageEntry("object", [ttsRate |-> 90]),
      StorageEntry("object", [textSize |-> "150", focusIndicator |-> [enabled |-> TRUE]]),
      StorageEntry("object", [defaultSettings EXCEPT !.colorBlindnessMode = "protanopia",
                                                     !.dyslexiaFont = TRUE]) }

\* the classes of the page on document.body when the widget is mounted
InitialBodies == { <<>>, <<"dark">> }

\* arguments of setTTSRate, in tenths: 0.3, 1.5, 2.5
Rates == {3, 15, 25}

\* the option a11y_widget_license_key as sanitize_text_field leaves it: not
\* set, the text 0, a key, a text with a quotation mark
LicenseOptions == { "", "0", "AW-eyJkIjoiQS5jbyJ9.MEUCIQ", "AW-\"x\".y" }

\* the scripts other plugins and the theme have put in the queue
OtherScripts ==
    { Enqueued("jquery-core", "/wp-includes/js/jquery/jquery.min.js", "3.7.1", FALSE),
      Enqueued("theme-js", "/wp-content/themes/t/main.js", "", TRUE) }

\* the tag WordPress makes for a script, as it reaches the filter: in the
\* HTML5 form, in the older form with a type and single quotes, and with
\* an attribute an earlier filter has put before src
ScriptTags(s) ==
    { "<script src=\"" \o s.src \o "\" id=\"" \o s.handle \o "-js\"></script>",
      "<script type='text/javascript' src='" \o s.src \o "' id='" \o s.handle \o "-js'></script>",
      "<script defer src=\"" \o s.src \o "\" id=\"" \o s.handle \o "-js\"></script>" }

\* the values of the bytes given to base64urlEncode: 251 and 255 give '+'
\* and '/' in standard base64
ByteValues == {0, 65, 251, 255}

ByteArrays == UNION { [1..k -> ByteValues] : k \in 0..MaxBytes }

\* pairs of arguments of domainMatches are drawn from these strings
DomainStrings ==
    { LOCALHOST,
      <<76, 111, 99, 97, 108, 72, 111, 115, 116>>,                      \* "LocalHost"
      LOOPBACK,
      <<119, 119, 119, 46, 108, 111, 99, 97, 108, 104, 111, 115, 116>>, \* "www.localhost"
      <<120, 46, 108, 111, 99, 97, 108, 104, 111, 115, 116>>,           \* "x.localhost"
      <<97, 46, 99, 111>>,                                              \* "a.co"
      DOMAIN_ARG,                                                       \* "A.co"
      <<119, 119, 119, 46, 97, 46, 99, 111>>,                           \* "www.a.co"
      <<87, 87, 87, 46, 97, 46, 99, 111>>,                              \* "WWW.a.co"
      <<115, 117, 98, 46, 97, 46, 99, 111>>,                            \* "sub.a.co"
      <<98, 46, 105, 111>>,                                             \* "b.io"
      <<>> }

---------------------------------------------------------------------------
(* The state machine                                                       *)

IssStart ==
    [pc |-> "start", exit |-> -1, stdout |-> <<>>, stderr |-> FALSE, licenseKey |-> <<>>,
     imports |-> 0]

VerIdle ==
    [pc |-> "idle", outcome |-> "pending", warned |-> FALSE,
     licenseKey |-> JUndefined, hostname |-> JUndefined, cryptoAvailable |-> TRUE,
     src |-> Src("", "", "", 0, 0),
     payloadB64 |-> <<>>, signatureB64 |-> <<>>, payload |-> JUndefined,
     reachedExpiry |-> FALSE, expiryDate |-> InvalidDate, checkedAt |-> InvalidDate,
     steps |-> <<>>, awaits |-> <<>>]

B64Idle == [pc |-> "idle", bytes |-> <<>>, encoded |-> <<>>, decoded |-> <<>>, ok |-> FALSE]

DmIdle == [pc |-> "idle", licenseDomain |-> <<>>, hostname |-> <<>>, result |-> FALSE]

\* the invocations that can be in flight together
CallIds == {1, 2}

\* inv is the invocation; overlapped tells whether it took a step while
\* another invocation was suspended at an await
CallsIdle == [id \in CallIds |-> [inv |-> VerIdle, overlapped |-> FALSE]]

\* the page before init() runs: scriptAttr is the script tag's
\* data-license-key attribute (null without the tag or the attribute),
\* globalKey is window.__A11Y_LICENSE_KEY__
PageIdle ==
    [pc |-> "idle", scriptAttr |-> JNull, globalKey |-> JUndefined,
     hostname |-> JStr(<<>>), cryptoAvailable |-> TRUE,
     licenseKey |-> JUndefined, validateCalls |-> 0, validatedHostname |-> JUndefined,
     isValid |-> "pending", warned |-> FALSE,
     containerInDom |-> FALSE, containerCreated |-> FALSE, rendered |-> FALSE]

\* the document without the container, no call of init made: containers
\* counts the elements with the id 'a11y-widget-root', roots the calls of
\* createRoot, overlapped tells that a call began while another was at its
\* await
LoadsIdle ==
    [containers |-> 0, roots |-> 0, overlapped |-> FALSE,
     inits |-> [id \in InitIds |-> PageIdle]]

\* the hook before its component is mounted
HookIdle ==
    [pc |-> "unmounted", settings |-> defaultSettings, isDefaultObject |-> TRUE,
     isLoaded |-> FALSE, announcement |-> "", prevSettings |-> defaultSettings,
     body |-> <<>>, focusVars |-> NoFocusVars,
     storage |-> StorageAbsent, visit |-> StorageAbsent,
     hasRead |-> FALSE, wroteBeforeRead |-> FALSE, loadFailed |-> FALSE,
     applyDue |-> FALSE, announceDue |-> FALSE, timer |-> "", called |-> "none",
     sameOptions |-> FALSE]

\* the plugin before a page is built
WpIdle ==
    [option |-> "", enqueued |-> FALSE, styles |-> {}, scripts |-> {}, tags |-> <<>>]

\* the widget before any keydown: the panel closed, the default settings
KbIdle ==
    [enabled |-> TRUE, isOpen |-> FALSE, settings |-> defaultSettings,
     announcement |-> "", event |-> NoEvent, prevented |-> FALSE, called |-> "none"]

Init ==
    /\ b64 = B64Idle
    /\ dm = DmIdle
    /\ argv \in ArgLists
    /\ env \in Envs
    /\ tz \in TzOffsets
    /\ now = IssueTime
    /\ iss = IssStart
    /\ hook = HookIdle
    /\ loads = LoadsIdle
    /\ wp = WpIdle
    /\ ver = VerIdle
    /\ calls = CallsIdle
    /\ page = PageIdle
    /\ kb = KbIdle

\* one run of generate-license.ts
IssuerRun ==
    /\ iss.pc = "start"
    /\ \E rnd \in RandomBytes, nonce \in Nonces :
          LET res == main(argv, env, now, tz, rnd, nonce)
          IN  iss' = [pc |-> "exited", exit |-> res.exit, stdout |-> res.stdout,
                      stderr |-> res.stderr, licenseKey |-> res.licenseKey,
                      imports |-> KeyImports(parseArgs(argv), env)]
    /\ UNCHANGED <<b64, dm, argv, env, tz, now, ver, calls, page, kb, hook, loads, wp>>

\* variant: only the await of crypto.subtle.verify gives up control
SuspendedOnlyAtVerify(awaits, res, nextPc) ==
    IF res.r = "await" /\ nextPc = "awaitVerify" THEN Append(awaits, nextPc) ELSE awaits

\* the awaits at which the invocation has given up control, once a stretch
\* has ended with res: an await suspends the function
Suspended(awaits, res, nextPc) ==
    IF res.r = "await" THEN Append(awaits, nextPc) ELSE awaits

\* the state of the invocation when a stretch ends with res
VerAfter(v, res, nextPc) ==
    [v EXCEPT !.pc = IF res.r = "await" THEN nextPc ELSE "settled",
              !.outcome = IF res.r = "await" THEN "pending" ELSE Settle(res),
              !.warned = res.warned,
              !.awaits = Suspended(v.awaits, res, nextPc)]

\* the locals payloadB64, signatureB64 and payload, once line 115 is passed
VerLocals(v, licenseKey) ==
    [v EXCEPT !.payloadB64 = PayloadB64Of(licenseKey),
              !.signatureB64 = SignatureB64Of(licenseKey),
              !.payload = PayloadOf(PayloadB64Of(licenseKey)).v]

\* the invocation with its arguments, before its first statement
VerArgs(cand, hostname, cryptoAvailable) ==
    [VerIdle EXCEPT !.licenseKey = cand.key, !.hostname = hostname,
                    !.cryptoAvailable = cryptoAvailable, !.src = cand.src,
                    !.steps = StartSteps(cand.key, cryptoAvailable)]

\* the invocation at its first await or at its end (lines 76-129)
VerCalled(cand, hostname, cryptoAvailable, res) ==
    VerAfter(IF res.r = "await"
             THEN VerLocals(VerArgs(cand, hostname, cryptoAvailable), cand.key.s)
             ELSE VerArgs(cand, hostname, cryptoAvailable),
             res, "awaitImportKey")

\* the invocation v at its second await or at its end (lines 131-141)
VerImported(v) ==
    [VerAfter(v, ValidateAfterImport(v.signatureB64), "awaitVerify")
        EXCEPT !.steps = v.steps \o AfterImportSteps(v.signatureB64)]

\* the page calls validateLicense(licenseKey, hostname); it runs to its
\* first await or to its end
ValidateCall ==
    /\ iss.pc = "exited"
    /\ ver.pc = "idle"
    /\ \E cand \in CraftedKeys \cup DerivedKeys(iss.licenseKey),
          hostname \in Hostnames, cryptoAvailable \in BOOLEAN :
          ver' = VerCalled(cand, hostname, cryptoAvailable,
                           ValidateStart(cand.key, cryptoAvailable))
    /\ UNCHANGED <<b64, dm, argv, env, tz, now, iss, calls, page, kb, hook, loads, wp>>

\* crypto.subtle.importKey resolves; the function runs to its second await
ImportKeyResolved ==
    /\ ver.pc = "awaitImportKey"
    /\ ver' = VerImported(ver)
    /\ UNCHANGED <<b64, dm, argv, env, tz, now, iss, calls, page, kb, hook, loads, wp>>

\* whether line 153 is reached: the signature is valid and the domain matches
ReachesExpiry(isSignatureValid, payload, hostname) ==
    /\ isSignatureValid
    /\ IsStr(GetMember(payload, KEY_D))
    /\ IsStr(hostname)
    /\ domainMatches(GetMember(payload, KEY_D).s, hostname.s)

VerSettled(v, reached, expiryDate, t, res) ==
    [v EXCEPT !.pc = "settled",
              !.outcome = Settle(res),
              !.reachedExpiry = reached,
              !.expiryDate = IF reached THEN expiryDate ELSE InvalidDate,
              !.checkedAt = IF reached THEN t ELSE InvalidDate]

\* crypto.subtle.verify resolves to isSignatureValid; the function runs to
\* its end
VerVerified(v, isSignatureValid, expiryDate, t) ==
    [VerSettled(v, ReachesExpiry(isSignatureValid, v.payload, v.hostname), expiryDate, t,
                ValidateAfterVerify(isSignatureValid, v.payload, v.hostname, expiryDate, t))
        EXCEPT !.steps = v.steps \o AfterVerifySteps(isSignatureValid, v.payload, v.hostname)]

VerifyResolvedWith(isSignatureValid) ==
    \E expiryDate \in ExpiryDates(ver.payload) :
        ver' = VerVerified(ver, isSignatureValid, expiryDate, now)

VerifyResolved ==
    /\ ver.pc = "awaitVerify"
    /\ VerifyResolvedWith(IsSignatureValid(ver.payloadB64, ver.signatureB64))
    /\ UNCHANGED <<b64, dm, argv, env, tz, now, iss, calls, page, kb, hook, loads, wp>>

\* Time passes.  Only the last stretch of validateLicense reads the clock
\* after the issuer has run, so the clock is moved just before it.
Tick ==
    /\ ver.pc = "awaitVerify"
    /\ \E t \in ClockPoints : TimeBefore(now, t) /\ now' = t
    /\ UNCHANGED <<b64, dm, argv, env, tz, iss, ver, calls, page, kb, hook, loads, wp>>

Next == IssuerRun \/ ValidateCall \/ ImportKeyResolved \/ VerifyResolved \/ Tick

Spec == Init /\ [][Next]_vars

---------------------------------------------------------------------------
(* base64urlEncode and base64urlDecode on their own                        *)

InitB64 ==
    /\ b64 \in { [B64Idle EXCEPT !.bytes = data] : data \in ByteArrays }
    /\ dm = DmIdle
    /\ argv = <<>>
    /\ env = EnvAbsent
    /\ tz = 0
    /\ now = IssueTime
    /\ iss = IssStart
    /\ hook = HookIdle
    /\ loads = LoadsIdle
    /\ wp = WpIdle
    /\ ver = VerIdle
    /\ calls = CallsIdle
    /\ page = PageIdle
    /\ kb = KbIdle

\* the issuer encodes the bytes
EncodeCall ==
    /\ b64.pc = "idle"
    /\ b64' = [b64 EXCEPT !.pc = "encoded", !.encoded = base64urlEncode(b64.bytes)]
    /\ UNCHANGED <<dm, argv, env, tz, now, iss, ver, calls, page, kb, hook, loads, wp>>

\* the verifier decodes what the issuer encoded
DecodeCall ==
    /\ b64.pc = "encoded"
    /\ b64' = [b64 EXCEPT !.pc = "decoded",
                          !.ok = base64urlDecode(b64.encoded).ok,
                          !.decoded = base64urlDecode(b64.encoded).bytes]
    /\ UNCHANGED <<dm, argv, env, tz, now, iss, ver, calls, page, kb, hook, loads, wp>>

NextB64 == EncodeCall \/ DecodeCall

SpecB64 == InitB64 /\ [][NextB64]_vars

---------------------------------------------------------------------------
(* domainMatches on its own                                                *)

InitDomain ==
    /\ b64 = B64Idle
    /\ dm \in { [DmIdle EXCEPT !.licenseDomain = ld, !.hostname = hn] :
                  ld \in DomainStrings, hn \in DomainStrings }
    /\ argv = <<>>
    /\ env = EnvAbsent
    /\ tz = 0
    /\ now = IssueTime
    /\ iss = IssStart
    /\ hook = HookIdle
    /\ loads = LoadsIdle
    /\ wp = WpIdle
    /\ ver = VerIdle
    /\ calls = CallsIdle
    /\ page = PageIdle
    /\ kb = KbIdle

DomainMatchesCall ==
    /\ dm.pc = "idle"
    /\ dm' = [dm EXCEPT !.pc = "done",
                        !.result = domainMatches(dm.licenseDomain, dm.hostname)]
    /\ UNCHANGED <<b64, argv, env, tz, now, iss, ver, calls, page, kb, hook, loads, wp>>

NextDomain == DomainMatchesCall

SpecDomain == InitDomain /\ [][NextDomain]_vars

---------------------------------------------------------------------------
(* The issuer on its own                                                   *)

InitIssuer ==
    /\ b64 = B64Idle
    /\ dm = DmIdle
    /\ argv \in IssuerArgLists
    /\ env \in IssuerEnvs
    /\ tz \in TzOffsets
    /\ now \in IssueTimes
    /\ iss = IssStart
    /\ hook = HookIdle
    /\ loads = LoadsIdle
    /\ wp = WpIdle
    /\ ver = VerIdle
    /\ calls = CallsIdle
    /\ page = PageIdle
    /\ kb = KbIdle

NextIssuer == IssuerRun

SpecIssuer == InitIssuer /\ [][NextIssuer]_vars

---------------------------------------------------------------------------
(* Invocations of validateLicense in flight together                       *)

InitConc ==
    /\ b64 = B64Idle
    /\ dm = DmIdle
    /\ argv = <<>>
    /\ env = EnvAbsent
    /\ tz = 0
    /\ now = IssueTime
    /\ iss = IssStart
    /\ hook = HookIdle
    /\ loads = LoadsIdle
    /\ wp = WpIdle
    /\ ver = VerIdle
    /\ calls = CallsIdle
    /\ page = PageIdle
    /\ kb = KbIdle

\* variant: payloadB64, signatureB64 and payload kept in variables of the
\* module, which the invocation started last has overwritten
LocalsShared(cs, id) ==
    LET last == CHOOSE j \in CallIds :
                    /\ cs[j].inv.pc # "idle"
                    /\ \A k \in CallIds : cs[k].inv.pc # "idle" => k <= j
    IN  [cs[id].inv EXCEPT !.payloadB64 = cs[last].inv.payloadB64,
                           !.signatureB64 = cs[last].inv.signatureB64,
                           !.payload = cs[last].inv.payload]

\* the invocation id with its own locals: const payloadB64, const
\* signatureB64 and let payload are declared in the function body
LocalsOf(cs, id) == cs[id].inv

\* another invocation is suspended at an await
OtherSuspended(cs, id) ==
    \E j \in CallIds \ {id} : cs[j].inv.pc \in {"awaitImportKey", "awaitVerify"}

\* the invocation id takes a step that leaves it as v
CallStep(cs, id, v) ==
    [cs EXCEPT ![id] = [inv |-> v, overlapped |-> cs[id].overlapped \/ OtherSuspended(cs, id)]]

\* a caller calls validateLicense(licenseKey, hostname)
ConcCall ==
    /\ \E id \in CallIds, cand \in ConcKeys, hostname \in ConcHostnames,
          cryptoAvailable \in BOOLEAN :
          /\ calls[id].inv.pc = "idle"
          /\ calls' = CallStep(calls, id,
                                VerCalled(cand, hostname, cryptoAvailable,
                                          ValidateStart(cand.key, cryptoAvailable)))
    /\ UNCHANGED <<b64, dm, argv, env, tz, now, iss, ver, page, kb, hook, loads, wp>>

\* crypto.subtle.importKey resolves for one of the invocations
ConcImportKeyResolved ==
    /\ \E id \in CallIds :
          /\ calls[id].inv.pc = "awaitImportKey"
          /\ calls' = CallStep(calls, id, VerImported(LocalsOf(calls, id)))
    /\ UNCHANGED <<b64, dm, argv, env, tz, now, iss, ver, page, kb, hook, loads, wp>>

\* crypto.subtle.verify resolves for one of the invocations
ConcVerifyResolved ==
    /\ \E id \in CallIds :
          /\ calls[id].inv.pc = "awaitVerify"
          /\ \E expiryDate \in ExpiryDates(LocalsOf(calls, id).payload) :
                calls' = CallStep(calls, id,
                                  VerVerified(LocalsOf(calls, id),
                                              IsSignatureValid(LocalsOf(calls, id).payloadB64,
                                                               LocalsOf(calls, id).signatureB64),
                                              expiryDate, now))
    /\ UNCHANGED <<b64, dm, argv, env, tz, now, iss, ver, page, kb, hook, loads, wp>>

\* time passes while an invocation is suspended
ConcTick ==
    /\ \E id \in CallIds : calls[id].inv.pc \in {"awaitImportKey", "awaitVerify"}
    /\ \E t \in ConcClock : TimeBefore(now, t) /\ now' = t
    /\ UNCHANGED <<b64, dm, argv, env, tz, iss, ver, calls, page, kb, hook, loads, wp>>

NextConc == ConcCall \/ ConcImportKeyResolved \/ ConcVerifyResolved \/ ConcTick

SpecConc == InitConc /\ [][NextConc]_vars

---------------------------------------------------------------------------
(* The page loader on its own                                              *)

InitLoader ==
    /\ b64 = B64Idle
    /\ dm = DmIdle
    /\ argv = <<>>
    /\ env = EnvAbsent
    /\ tz = 0
    /\ now \in LoadTimes
    /\ iss = IssStart
    /\ hook = HookIdle
    /\ loads = LoadsIdle
    /\ wp = WpIdle
    /\ ver = VerIdle
    /\ calls = CallsIdle
    /\ page \in { [PageIdle EXCEPT !.scriptAttr = a, !.globalKey = g, !.hostname = h,
                                   !.cryptoAvailable = c, !.containerInDom = d] :
                    a \in ScriptAttrs, g \in GlobalKeys, h \in ConcHostnames,
                    c \in BOOLEAN, d \in BOOLEAN }
    /\ kb = KbIdle

\* the document is ready: init() runs to its await or to its end
LoaderInit ==
    /\ page.pc = "idle"
    /\ page' = InitStart(page)
    /\ UNCHANGED <<b64, dm, argv, env, tz, now, iss, ver, calls, kb, hook, loads, wp>>

\* the promise of validateLicense settles; init runs to its end
LoaderValidateResolved ==
    /\ page.pc = "awaitValidate"
    /\ \E outcome \in validateLicense(page.licenseKey, page.hostname, page.cryptoAvailable, now) :
          page' = InitAfterValidate(page, outcome = "true")
    /\ UNCHANGED <<b64, dm, argv, env, tz, now, iss, ver, calls, kb, hook, loads, wp>>

NextLoader == LoaderInit \/ LoaderValidateResolved

SpecLoader == InitLoader /\ [][NextLoader]_vars

---------------------------------------------------------------------------
(* The keyboard shortcuts on their own                                     *)

InitKeyboard ==
    /\ b64 = B64Idle
    /\ dm = DmIdle
    /\ argv = <<>>
    /\ env = EnvAbsent
    /\ tz = 0
    /\ now = IssueTime
    /\ iss = IssStart
    /\ hook = HookIdle
    /\ loads = LoadsIdle
    /\ wp = WpIdle
    /\ ver = VerIdle
    /\ calls = CallsIdle
    /\ page = PageIdle
    /\ kb \in { [KbIdle EXCEPT !.enabled = en, !.settings = st] :
                  en \in BOOLEAN, st \in StoredSettings }

\* the event e arrives at k: nothing is prevented or called yet
Dispatched(k, e) == [k EXCEPT !.event = e, !.prevented = FALSE, !.called = "none"]

\* a keydown reaches window; the listener is there only while the hook is
\* enabled
KeyDown ==
    /\ \E e \in KeyEvents :
          kb' = IF kb.enabled THEN handleKeyDown(Dispatched(kb, e), e) ELSE Dispatched(kb, e)
    /\ UNCHANGED <<b64, dm, argv, env, tz, now, iss, ver, calls, page, hook, loads, wp>>

NextKeyboard == KeyDown

SpecKeyboard == InitKeyboard /\ [][NextKeyboard]_vars

---------------------------------------------------------------------------
(* Several calls of init on one document                                   *)

InitLoads ==
    /\ b64 = B64Idle
    /\ dm = DmIdle
    /\ argv = <<>>
    /\ env = EnvAbsent
    /\ tz = 0
    /\ now \in LoadTimes
    /\ iss = IssStart
    /\ ver = VerIdle
    /\ calls = CallsIdle
    /\ page = PageIdle
    /\ kb = KbIdle
    /\ hook = HookIdle
    /\ loads \in { [LoadsIdle EXCEPT
                       !.containers = n,
                       !.inits = [id \in InitIds |->
                                    [PageIdle EXCEPT !.scriptAttr = a, !.globalKey = g,
                                                     !.hostname = h]]] :
                     n \in {0, 1}, a \in ScriptAttrs, g \in GlobalKeys, h \in ConcHostnames }
    /\ wp = WpIdle

\* init is called: by the script when it loads, on DOMContentLoaded, or by
\* the page through the export
LoadsInit ==
    /\ \E id \in InitIds :
          /\ loads.inits[id].pc = "idle"
          /\ loads' = InitBegins(loads, id)
    /\ UNCHANGED <<b64, dm, argv, env, tz, now, iss, ver, calls, page, kb, hook, wp>>

\* the promise of validateLicense of one call settles; that call runs to
\* its end
LoadsValidateResolved ==
    /\ \E id \in InitIds :
          /\ loads.inits[id].pc = "awaitValidate"
          /\ \E outcome \in validateLicense(loads.inits[id].licenseKey, loads.inits[id].hostname,
                                             loads.inits[id].cryptoAvailable, now) :
                loads' = InitEnds(loads, id, outcome = "true")
    /\ UNCHANGED <<b64, dm, argv, env, tz, now, iss, ver, calls, page, kb, hook, wp>>

NextLoads == LoadsInit \/ LoadsValidateResolved

SpecLoads == InitLoads /\ [][NextLoads]_vars

---------------------------------------------------------------------------
(* The WordPress plugin on its own: one page request                       *)

InitWp ==
    /\ b64 = B64Idle
    /\ dm = DmIdle
    /\ argv = <<>>
    /\ env = EnvAbsent
    /\ tz = 0
    /\ now = IssueTime
    /\ iss = IssStart
    /\ ver = VerIdle
    /\ calls = CallsIdle
    /\ page = PageIdle
    /\ kb = KbIdle
    /\ hook = HookIdle
    /\ loads = LoadsIdle
    /\ wp \in { [WpIdle EXCEPT !.option = o, !.scripts = OtherScripts] : o \in LicenseOptions }

\* WordPress does the action wp_enqueue_scripts
WpEnqueueScripts ==
    /\ ~wp.enqueued
    /\ wp' = a11y_widget_enqueue_scripts(wp)
    /\ UNCHANGED <<b64, dm, argv, env, tz, now, iss, ver, calls, page, kb, hook, loads>>

\* WordPress prints a script of the queue and passes its tag through the
\* filter script_loader_tag
WpScriptLoaderTag ==
    /\ wp.enqueued
    /\ \E s \in wp.scripts :
          /\ \A j \in 1..Len(wp.tags) : wp.tags[j].handle # s.handle
          /\ \E tag \in ScriptTags(s) :
                wp' = [wp EXCEPT !.tags = Append(wp.tags,
                          [handle |-> s.handle, tag |-> tag,
                           out |-> a11y_widget_script_attributes(tag, s.handle, s.src,
                                                                 wp.option)])]
    /\ UNCHANGED <<b64, dm, argv, env, tz, now, iss, ver, calls, page, kb, hook, loads>>

NextWp == WpEnqueueScripts \/ WpScriptLoaderTag

SpecWp == InitWp /\ [][NextWp]_vars

---------------------------------------------------------------------------
(* The settings hook on its own                                            *)

InitHook ==
    /\ b64 = B64Idle
    /\ dm = DmIdle
    /\ argv = <<>>
    /\ env = EnvAbsent
    /\ tz = 0
    /\ now = IssueTime
    /\ iss = IssStart
    /\ ver = VerIdle
    /\ calls = CallsIdle
    /\ page = PageIdle
    /\ kb = KbIdle
    /\ hook \in { [HookIdle EXCEPT !.storage = st, !.visit = st, !.body = body,
                                   !.sameOptions = same] :
                    st \in HookStorages, body \in InitialBodies, same \in BOOLEAN }
    /\ loads = LoadsIdle
    /\ wp = WpIdle

\* the effects of the first render, in the order of their declaration: the
\* load; the effect on settings, which sees the settings and the isLoaded
\* of the first render, false; the effect on announcement, which sees ''.
\* isLoaded has changed, so the effect on settings is due again.
HookMount ==
    /\ hook.pc = "unmounted"
    /\ hook' = [AnnouncementEffect(ApplyEffect(LoadEffect(hook), hook.settings, hook.isLoaded), "")
                    EXCEPT !.pc = "mounted", !.applyDue = TRUE, !.called = "mount"]
    /\ UNCHANGED <<b64, dm, argv, env, tz, now, iss, ver, calls, page, kb, loads, wp>>

\* the effects of a render h, rendered being its announcement: the effect
\* on settings (applied is h after it), then the effect on announcement
\* when it changed; the announcement set by the first makes the second due
\* again
EffectsOf(h, applied, rendered) ==
    [(IF h.announceDue THEN AnnouncementEffect(applied, rendered) ELSE applied)
        EXCEPT !.applyDue = FALSE,
               !.announceDue = (applied.announcement # rendered)]

\* the effect on settings depends on [settings, isLoaded, options]: the
\* caller that passes no options, as AccessibilityWidget does, gives the
\* hook a new object {} in every render, and the effect runs in every
\* render; with the same options object in every render it runs when
\* settings or isLoaded changed
ApplyEffectRuns(h) == h.applyDue \/ ~h.sameOptions

\* React renders again and runs the effects that are due
HookEffects ==
    /\ hook.pc = "mounted"
    /\ hook.applyDue \/ hook.announceDue
    /\ hook' = EffectsOf(hook, IF ApplyEffectRuns(hook)
                               THEN ApplyEffect(hook, hook.settings, hook.isLoaded)
                               ELSE hook,
                         hook.announcement)
    /\ UNCHANGED <<b64, dm, argv, env, tz, now, iss, ver, calls, page, kb, loads, wp>>

\* the component is ready for an event: mounted, no effect due
HookReady == hook.pc = "mounted" /\ ~hook.applyDue /\ ~hook.announceDue

HookToggleSetting ==
    /\ HookReady
    /\ \E key \in {"highContrast", "reduceMotion"} :
          hook' = SettingsSet(toggleSetting(hook, key))
    /\ UNCHANGED <<b64, dm, argv, env, tz, now, iss, ver, calls, page, kb, loads, wp>>

HookUpdateSetting ==
    /\ HookReady
    /\ \/ hook' = SettingsSet(updateSetting(hook, "textSize", "150"))
       \/ hook' = SettingsSet(updateSetting(hook, "bigCursor", TRUE))
       \/ hook' = SettingsSet(updateSetting(hook, "ttsRate", 50))
    /\ UNCHANGED <<b64, dm, argv, env, tz, now, iss, ver, calls, page, kb, loads, wp>>

HookSetTTSRate ==
    /\ HookReady
    /\ \E rate \in Rates : hook' = SettingsSet(setTTSRate(hook, rate))
    /\ UNCHANGED <<b64, dm, argv, env, tz, now, iss, ver, calls, page, kb, loads, wp>>

\* resetSettings(): setSettings(defaultSettings) changes nothing when the
\* state is that object already; setAnnouncement changes nothing when the
\* announcement is that text already
HookResetSettings ==
    /\ HookReady
    /\ hook' = [resetSettings(hook) EXCEPT
                    !.isDefaultObject = TRUE,
                    !.applyDue = ~hook.isDefaultObject,
                    !.announceDue = (hook.announcement # "All accessibility settings reset")]
    /\ UNCHANGED <<b64, dm, argv, env, tz, now, iss, ver, calls, page, kb, loads, wp>>

\* the timer set by the effect on announcement fires after a second:
\* setAnnouncement('')
HookTimerFires ==
    /\ HookReady
    /\ hook.timer # ""
    /\ hook' = [hook EXCEPT !.announcement = "", !.timer = "",
                            !.announceDue = (hook.announcement # ""),
                            !.called = "timer"]
    /\ UNCHANGED <<b64, dm, argv, env, tz, now, iss, ver, calls, page, kb, loads, wp>>

NextHook ==
    HookMount \/ HookEffects \/ HookToggleSetting \/ HookUpdateSetting \/ HookSetTTSRate
    \/ HookResetSettings \/ HookTimerFires

SpecHook == InitHook /\ [][NextHook]_vars

---------------------------------------------------------------------------
(* Properties                                                              *)

\* the issuer printed a key
KeyIssued == iss.pc = "exited" /\ iss.licenseKey # <<>>

\* the issuer signed with the private half of the verifier's PUBLIC_KEY
KeysPaired == env = EnvJwk(PUBLIC_KEY)

\* the payload the issuer put in the key it printed
IssuedPayload == PayloadOf(PayloadB64Of(iss.licenseKey)).v

\* the current time is not after the end of the expiry day of the printed key
InIssuedWindow ==
    \A x \in DateParse(JSToString(GetMember(IssuedPayload, KEY_E)) \o T235959Z) :
        ~x.nan /\ ~TimeBefore(x, now)

\* validateLicense has settled on the key the issuer printed, with the
\* domain given to the issuer as hostname
IssuedKeyChecked ==
    /\ ver.pc = "settled"
    /\ KeyIssued
    /\ KeysPaired
    /\ ver.cryptoAvailable
    /\ ver.licenseKey = JStr(iss.licenseKey)
    /\ ver.hostname = parseArgs(argv).domain

\* C1: a key the issuer printed is accepted when verified with the issued
\* domain as hostname at any time up to the end of its expiry day.
C1_IssuedKeyAccepted ==
    (IssuedKeyChecked /\ InIssuedWindow) => ver.outcome = "true"

\* b is a with exactly one character replaced, at a position in lo..hi
OneCharReplaced(a, b, lo, hi) ==
    /\ Len(a) = Len(b)
    /\ \E j \in lo..hi : a[j] # b[j] /\ \A q \in (1..Len(a)) \ {j} : a[q] = b[q]

\* the presented key is the printed key with one character of its payload
\* segment or of its signature segment replaced, and the printed key is
\* accepted for the same hostname at the same time
TamperedKeyChecked ==
    /\ ver.pc = "settled"
    /\ KeyIssued
    /\ IsStr(ver.licenseKey)
    /\ LET lo == Len(AW_PREFIX) + 1
           mid == Len(AW_PREFIX) + Len(PayloadB64Of(iss.licenseKey))
       IN  \/ OneCharReplaced(iss.licenseKey, ver.licenseKey.s, lo, mid)
           \/ OneCharReplaced(iss.licenseKey, ver.licenseKey.s, mid + 2, Len(iss.licenseKey))
    /\ validateLicense(JStr(iss.licenseKey), ver.hostname, ver.cryptoAvailable, now) = {"true"}

\* C2: a key made from an accepted key by replacing one character of its
\* payload segment or of its signature segment is rejected for the same
\* hostname and time.
C2_TamperedKeyRejected ==
    TamperedKeyChecked => ver.outcome = "false"

\* the conditions of acceptance, on the presented key
C3KeyShape(licenseKey) ==
    /\ IsStr(licenseKey)
    /\ StartsWith(licenseKey.s, AW_PREFIX)
    /\ \E j \in 1..Len(KeyBody(licenseKey.s)) : KeyBody(licenseKey.s)[j] = CH_DOT
    /\ PayloadB64Of(licenseKey.s) # <<>>
    /\ SignatureB64Of(licenseKey.s) # <<>>

C3PayloadComplete(payload) ==
    \A f \in {KEY_D, KEY_E, KEY_T, KEY_I} : Truthy(GetMember(payload, f))

C3SignatureVerifies(payloadB64, signatureB64) ==
    /\ base64urlDecode(signatureB64).ok
    /\ CryptoVerify(PUBLIC_KEY, base64urlDecode(signatureB64).bytes, Utf8Encode(payloadB64))

C3DomainMatches(d, hostname) ==
    IsStr(d) /\ IsStr(hostname) /\ domainMatches(d.s, hostname.s)

C3NotExpired(e) ==
    /\ ver.reachedExpiry
    /\ ver.expiryDate \in DateParse(JSToString(e) \o T235959Z)
    /\ ver.checkedAt = now
    /\ ~ver.expiryDate.nan
    /\ ~TimeBefore(ver.expiryDate, now)

C3PayloadConditions(payloadB64, signatureB64, parsed) ==
    /\ parsed.ok
    /\ C3PayloadComplete(parsed.v)
    /\ C3SignatureVerifies(payloadB64, signatureB64)
    /\ C3DomainMatches(GetMember(parsed.v, KEY_D), ver.hostname)

C3UpToDomain ==
    /\ ver.cryptoAvailable
    /\ C3KeyShape(ver.licenseKey)
    /\ base64urlDecode(PayloadB64Of(ver.licenseKey.s)).ok
    /\ C3PayloadConditions(PayloadB64Of(ver.licenseKey.s), SignatureB64Of(ver.licenseKey.s),
                           PayloadOf(PayloadB64Of(ver.licenseKey.s)))

C3Conditions ==
    /\ C3UpToDomain
    /\ C3NotExpired(GetMember(ver.payload, KEY_E))
    /\ ver.payload = PayloadOf(PayloadB64Of(ver.licenseKey.s)).v

\* C3: validateLicense resolves true exactly when the crypto primitive is
\* available, the key has the prefix and two non-empty segments around its
\* last '.', the payload decodes to JSON with non-empty d, e, t and i, the
\* signature verifies under PUBLIC_KEY over the payload segment string, the
\* domain matches and e + 'T23:59:59Z' is a date not before the current
\* time; in every other case it resolves false.
C3_AcceptedIffAllConditions ==
    ver.pc = "settled" =>
        /\ ver.outcome \in {"true", "false"}
        /\ (ver.outcome = "true") <=> C3Conditions
        /\ C3UpToDomain => ver.reachedExpiry

\* a key accepted with every condition met
C3_Witness ==
    /\ ver.pc = "settled"
    /\ ver.outcome = "true"
    /\ C3Conditions
    /\ ver.licenseKey = JStr(iss.licenseKey)

\* one step of an invocation of validateLicense: from the call to the first
\* await or the end, from the first await to the second or the end, from
\* the second await to the end; a settled promise stays as it is
C4Step ==
    /\ ver.pc = "idle" => ver'.pc \in {"awaitImportKey", "settled"}
    /\ ver.pc = "awaitImportKey" => ver'.pc \in {"awaitVerify", "settled"}
    /\ ver.pc = "awaitVerify" => ver'.pc = "settled"
    /\ ver.pc = "settled" => FALSE

\* C4: whatever the key and the hostname, the promise validateLicense
\* returns is never rejected and no exception leaves the call: each stretch
\* of the function ends at the next await or settles the promise, and the
\* promise settles with true or false.
C4_AlwaysResolvesBoolean ==
    /\ [](ver.outcome \in {"pending", "true", "false"})
    /\ []((ver.pc = "settled") <=> (ver.outcome \in {"true", "false"}))
    /\ [][C4Step]_ver

\* an exception inside the function (a key that is no string; a payload that
\* is JSON null) ended as the value false
C4_Witness ==
    /\ ver.pc = "settled"
    /\ ver.outcome = "false"
    /\ ver.cryptoAvailable
    /\ ValidateStart(ver.licenseKey, ver.cryptoAvailable).r = "throw"

\* String.prototype.toUpperCase on the letters a-z
ToUpperChar(c) == IF c \in 97..122 THEN c - 32 ELSE c

toUpperCase(s) == [j \in 1..Len(s) |-> ToUpperChar(s[j])]

\* the four cases, on lowercased arguments
DomainRule(ld, hn) ==
    \/ ld = hn
    \/ (ld = LOCALHOST /\ hn \in {LOCALHOST, LOOPBACK})
    \/ hn = WWW_DOT \o ld
    \/ ld = WWW_DOT \o hn

\* hn is label + '.' + ld with a label other than 'www'
OtherLabel(ld, hn) ==
    /\ Len(hn) > Len(ld)
    /\ SubSeq(hn, Len(hn) - Len(ld), Len(hn)) = <<CH_DOT>> \o ld
    /\ SubSeq(hn, 1, Len(hn) - Len(ld) - 1) # SubSeq(WWW_DOT, 1, 3)

\* C5: domainMatches is true exactly in the four cases on the lowercased
\* arguments; a hostname label.licenseDomain with a label other than www
\* never matches; the letter case of the arguments does not change the result.
C5_DomainMatchesRule ==
    dm.pc = "done" =>
        /\ dm.result = DomainRule(toLowerCase(dm.licenseDomain), toLowerCase(dm.hostname))
        /\ OtherLabel(toLowerCase(dm.licenseDomain), toLowerCase(dm.hostname)) => ~dm.result
        /\ dm.result = domainMatches(toUpperCase(dm.licenseDomain), dm.hostname)
        /\ dm.result = domainMatches(dm.licenseDomain, toUpperCase(dm.hostname))
        /\ dm.result = domainMatches(toLowerCase(dm.licenseDomain), toLowerCase(dm.hostname))

\* "A.co" against "WWW.a.co": a match by the www rule after lowercasing
C5_Witness ==
    /\ dm.pc = "done"
    /\ dm.licenseDomain = DOMAIN_ARG
    /\ dm.hostname = <<87, 87, 87, 46, 97, 46, 99, 111>>
    /\ dm.result

\* C6 as stated: with the license domain 'localhost', domainMatches is true
\* for the hostnames 'localhost' and '127.0.0.1' in any letter case and
\* false for every other hostname.
C6_LocalhostOnly ==
    (dm.pc = "done" /\ dm.licenseDomain = LOCALHOST) =>
        (dm.result <=> toLowerCase(dm.hostname) \in {LOCALHOST, LOOPBACK})

\* C6, amended: with the license domain 'localhost', domainMatches is true
\* for the hostnames 'localhost', '127.0.0.1' and 'www.localhost' in any
\* letter case and false for every other hostname.
C6_LocalhostAndWww ==
    (dm.pc = "done" /\ dm.licenseDomain = LOCALHOST) =>
        (dm.result <=> toLowerCase(dm.hostname) \in {LOCALHOST, LOOPBACK, WWW_DOT \o LOCALHOST})

\* 'localhost' against 'www.localhost'
C6_Witness ==
    /\ dm.pc = "done"
    /\ dm.licenseDomain = LOCALHOST
    /\ dm.hostname = WWW_DOT \o LOCALHOST
    /\ dm.result

\* e is YYYY-MM-DD, a day of the calendar
IsCalendarDate(e) ==
    /\ Len(e) = 10
    /\ e[5] = CH_MINUS /\ e[8] = CH_MINUS
    /\ AllDigits(SubSeq(e, 1, 4)) /\ AllDigits(SubSeq(e, 6, 7)) /\ AllDigits(SubSeq(e, 9, 10))
    /\ DigitsValue(e, 6, 8) \in 1..12
    /\ DigitsValue(e, 9, 11) \in 1..DaysInMonth(DigitsValue(e, 1, 5), DigitsValue(e, 6, 8))

\* the instant e 23:59:59.000 UTC
EndOfDay(e) ==
    TimeValue(DaysFromCivil(DigitsValue(e, 1, 5), DigitsValue(e, 6, 8), DigitsValue(e, 9, 11)),
              END_OF_DAY_MS)

\* C7: once the signature is valid and the domain matches, the key is
\* accepted at every current time up to and including e 23:59:59.000 UTC and
\* rejected at every later time; a key whose e does not parse as a date is
\* rejected at every time.
C7_ExpiryBoundary ==
    (ver.pc = "settled" /\ ver.reachedExpiry) =>
        /\ ver.checkedAt = now
        /\ ver.expiryDate.nan => ver.outcome = "false"
        /\ ~ver.expiryDate.nan =>
              (ver.outcome = "true" <=> ~TimeBefore(ver.expiryDate, now))
        /\ (IsStr(GetMember(ver.payload, KEY_E)) /\ IsCalendarDate(GetMember(ver.payload, KEY_E).s)) =>
              /\ ver.expiryDate = EndOfDay(GetMember(ver.payload, KEY_E).s)
              /\ ver.outcome = (IF TimeBefore(EndOfDay(GetMember(ver.payload, KEY_E).s), now)
                                THEN "false" ELSE "true")
        /\ ExpiryDates(ver.payload) = {InvalidDate} => ver.outcome = "false"

\* a key accepted in the last instant of its expiry day
C7_Witness ==
    /\ ver.pc = "settled"
    /\ ver.reachedExpiry
    /\ ver.expiryDate = now
    /\ now.ms = END_OF_DAY_MS
    /\ ver.outcome = "true"

\* the presented key is the printed key with its payload serialized again in
\* another member order, under the printed signature segment
ReorderedKeyChecked ==
    /\ ver.pc = "settled"
    /\ KeyIssued
    /\ IsStr(ver.licenseKey)
    /\ ver.licenseKey.s # iss.licenseKey
    /\ Len(ver.licenseKey.s) = Len(iss.licenseKey)
    /\ SignatureB64Of(ver.licenseKey.s) = SignatureB64Of(iss.licenseKey)
    /\ ver.licenseKey.s = ReorderedKey(iss.licenseKey)

\* C8: the verifier checks the signature over the payload segment exactly
\* as it stands in the presented key, which is the string the issuer
\* signed; a payload segment made again from the same fields in another
\* order is rejected under the original signature, the original pairing is
\* accepted.
C8_SignatureOverPayloadSegment ==
    /\ (KeyIssued /\ ver.pc = "idle") =>
          /\ \E nonce \in Nonces :
                base64urlDecode(SignatureB64Of(iss.licenseKey)).bytes
                    = CryptoSign(env.key, Utf8Encode(PayloadB64Of(iss.licenseKey)), nonce)
          /\ ReorderedKey(iss.licenseKey) # iss.licenseKey
          /\ PayloadOf(PayloadB64Of(ReorderedKey(iss.licenseKey))).v.m # IssuedPayload.m
    /\ ver.pc \in {"awaitImportKey", "awaitVerify", "settled"} /\ ver.payloadB64 # <<>> =>
          /\ ver.payloadB64 = PayloadB64Of(ver.licenseKey.s)
          /\ DataToVerify(ver.payloadB64) = Utf8Encode(PayloadB64Of(ver.licenseKey.s))
    /\ ReorderedKeyChecked => ver.outcome = "false"
    /\ (IssuedKeyChecked /\ InIssuedWindow /\ ~FieldsMissing(IssuedPayload)) => ver.outcome = "true"

\* the reordered key reached the signature check and was rejected there
C8_Witness ==
    /\ ReorderedKeyChecked
    /\ KeysPaired
    /\ ver.cryptoAvailable
    /\ ~FieldsMissing(ver.payload)
    /\ ver.hostname = parseArgs(argv).domain
    /\ ~ver.reachedExpiry
    /\ ver.outcome = "false"

\* C9: base64urlDecode(base64urlEncode(b)) is b, and the encoded text has
\* none of '+', '/', '=' and '.'.
C9_RoundTrip ==
    /\ b64.pc \in {"encoded", "decoded"} =>
          \A j \in 1..Len(b64.encoded) : b64.encoded[j] \notin {CH_PLUS, CH_SLASH, CH_EQ, CH_DOT}
    /\ b64.pc = "decoded" => (b64.ok /\ b64.decoded = b64.bytes)

\* bytes whose standard base64 has '+', '/' and padding, decoded again
C9_Witness ==
    /\ b64.pc = "decoded"
    /\ b64.bytes = <<251, 255>>
    /\ b64.encoded = <<CH_MINUS, 95, 56>>
    /\ b64.decoded = <<251, 255>>

\* 'aw_' and sixteen hexadecimal characters
IsLicenseId(i) ==
    /\ Len(i) = Len(ID_PREFIX) + 2 * ID_BYTES
    /\ SubSeq(i, 1, Len(ID_PREFIX)) = ID_PREFIX
    /\ \A j \in (Len(ID_PREFIX) + 1)..Len(i) : i[j] \in (48..57) \cup (97..102)

\* YYYY-MM-DD
IsDateShaped(e) ==
    /\ Len(e) = 10
    /\ e[5] = CH_MINUS /\ e[8] = CH_MINUS
    /\ \A j \in {1, 2, 3, 4, 6, 7, 9, 10} : IsDigit(e[j])

\* C10: the payload of every key the issuer prints has d, e, t and i present
\* and non-empty, d the lowercased domain, e of the form YYYY-MM-DD and i
\* 'aw_' followed by 16 hexadecimal characters.
C10_IssuedPayloadComplete ==
    KeyIssued =>
        /\ \A f \in {KEY_D, KEY_E, KEY_T, KEY_I} :
              IsStr(GetMember(IssuedPayload, f)) /\ GetMember(IssuedPayload, f).s # <<>>
        /\ GetMember(IssuedPayload, KEY_D).s = toLowerCase(parseArgs(argv).domain.s)
        /\ IsDateShaped(GetMember(IssuedPayload, KEY_E).s)
        /\ IsLicenseId(GetMember(IssuedPayload, KEY_I).s)

\* the argument lists with a help option in them
HelpAsked(args) == \E j \in 1..Len(args) : args[j] \in {OPT_HELP, OPT_H}

\* the text that follows the last of the options names; absent when there
\* is no such option or nothing follows it
ValueAfterLast(args, names) ==
    IF \E j \in 1..(Len(args) - 1) : args[j] \in names /\ \A q \in (j + 1)..Len(args) : args[q] \notin names
    THEN JStr(args[(CHOOSE j \in 1..(Len(args) - 1) :
                       args[j] \in names /\ \A q \in (j + 1)..Len(args) : args[q] \notin names) + 1])
    ELSE JUndefined

OptionGiven(args, names) == \E j \in 1..Len(args) : args[j] \in names

\* the domain argument is there and not empty
DomainGiven(args) == Truthy(ValueAfterLast(args, {OPT_DOMAIN, OPT_D}))

\* s is the decimal text of an integer >= 1
IsPositiveIntegerText(s) == s # <<>> /\ AllDigits(s) /\ \E j \in 1..Len(s) : s[j] # 48

\* the months argument is left out, or is a positive integer
MonthsGivenValid(args) ==
    \/ ~OptionGiven(args, {OPT_MONTHS, OPT_M})
    \/ /\ IsStr(ValueAfterLast(args, {OPT_MONTHS, OPT_M}))
       /\ IsPositiveIntegerText(ValueAfterLast(args, {OPT_MONTHS, OPT_M}).s)

IssuerExited == iss.pc = "exited"

NoKeyWritten == iss.stdout = <<>> /\ iss.licenseKey = <<>>

\* C11: the issuer exits with a non-zero status and without a key whenever
\* the domain is missing or empty or months is not a positive integer (zero,
\* negative, non-numeric, '1.5', '3x'); it goes on only with a non-empty
\* domain and an integer months >= 1.  (Runs without a help option.)
C11_InvalidArgumentsRejected ==
    (IssuerExited /\ ~HelpAsked(argv)) =>
        /\ (~DomainGiven(argv) \/ ~MonthsGivenValid(argv)) => (iss.exit # 0 /\ NoKeyWritten)
        /\ iss.exit = 0 => (DomainGiven(argv) /\ MonthsGivenValid(argv))

\* stdout has a line with the license key in it
KeyLineWritten ==
    \E j \in 1..Len(iss.stdout) : iss.stdout[j].tag \in {"key", "script"}

\* C12: a run that ends with a non-zero status has written no license key
\* and no part of one to stdout; a key is written only after it was signed.
C12_NoKeyOnFailure ==
    IssuerExited =>
        /\ iss.exit # 0 => NoKeyWritten
        /\ iss.exit \in {0, 1}
        /\ KeyLineWritten =>
              /\ iss.exit = 0
              /\ \A j \in 1..Len(iss.stdout) :
                    iss.stdout[j].tag \in {"key", "script"} => iss.stdout[j].text = iss.licenseKey
              /\ CryptoVerify(env.key, base64urlDecode(SignatureB64Of(iss.licenseKey)).bytes,
                              Utf8Encode(PayloadB64Of(iss.licenseKey)))

\* valid arguments, a private key that cannot be imported: exit 1, nothing
\* on stdout
C12_Witness ==
    /\ IssuerExited
    /\ parseArgs(argv).exit = -1
    /\ env = EnvJwk(0)
    /\ iss.exit = 1
    /\ NoKeyWritten

\* the environment variable is absent or empty, is not JSON, or is JSON that
\* is no usable private key
KeyMaterialBad == env.k # "json" \/ env.key = 0

MonthsAfter(t, months) ==
    LET cur   == CivilFromDays(t.day)
        total == (cur.m - 1) + months
    IN  PadDigits(cur.y + (total \div 12), 4) \o <<CH_MINUS>>
        \o PadDigits((total % 12) + 1, 2) \o <<CH_MINUS>> \o PadDigits(cur.d, 2)

\* C14: the expiry date the issuer writes is the current date with the
\* month advanced by months (with year carry) and the same day of month.
C14_ExpiryIsMonthsLater ==
    KeyIssued =>
        GetMember(IssuedPayload, KEY_E) = JStr(MonthsAfter(now, parseArgs(argv).months.n))

\* C19: with '--help' or '-h' anywhere in the argument list the issuer
\* prints the usage text and exits with status 0, without a key, whatever
\* the other arguments and the private key.
C19_HelpAnywhere ==
    (IssuerExited /\ HelpAsked(argv)) =>
        /\ iss.exit = 0
        /\ iss.stdout = <<Line("usage", <<>>)>>
        /\ iss.licenseKey = <<>>

\* the invocation id has settled with a value other than true
Failing(id) == calls[id].inv.pc = "settled" /\ calls[id].inv.outcome # "true"

\* the check at which the invocation id stopped
StoppedAt(id) == calls[id].inv.steps[Len(calls[id].inv.steps)]

\* C15: any two failing calls of validateLicense deliver the same value, the
\* boolean false, whatever made them fail; a settled call has delivered
\* true or false and nothing else (no rejection, no error value).
C15_FailuresIndistinguishable ==
    /\ \A i, j \in CallIds :
          (Failing(i) /\ Failing(j)) =>
              /\ calls[i].inv.outcome = calls[j].inv.outcome
              /\ calls[i].inv.outcome = "false"
    /\ \A i \in CallIds :
          calls[i].inv.pc = "settled" => calls[i].inv.outcome \in {"true", "false"}

\* two calls that failed for different causes, one of them for want of Web
\* Crypto
C15_Witness ==
    /\ Failing(1) /\ Failing(2)
    /\ StoppedAt(1) = "crypto"
    /\ StoppedAt(2) \in {"prefix", "sigDecode", "signature", "domain", "expiry"}

\* the value the invocation id settles with when it runs alone
AloneOutcomes(c) ==
    validateLicense(c.licenseKey, c.hostname, c.cryptoAvailable,
                    IF c.reachedExpiry THEN c.checkedAt ELSE now)

\* a step of one invocation leaves the other invocations and everything
\* else but the clock as they were
C16Step ==
    /\ \A i, j \in CallIds : (i # j /\ calls'[i] # calls[i]) => calls'[j] = calls[j]
    /\ <<b64, dm, argv, env, tz, iss, ver, page, kb, hook, loads, wp>>'
          = <<b64, dm, argv, env, tz, iss, ver, page, kb, hook, loads, wp>>

\* C16: invocations in flight together do not affect each other: each
\* settles with the value it settles with when run alone with the same
\* key, hostname and clock, and a step of one changes nothing the other
\* reads and no state outside the invocation.
C16_ConcurrentCallsIndependent ==
    /\ [](\A id \in CallIds :
            calls[id].inv.pc = "settled" =>
                calls[id].inv.outcome \in AloneOutcomes(calls[id].inv))
    /\ [][C16Step]_vars

\* both invocations ran while the other was suspended, with different keys,
\* and one settled true, the other false
C16_Witness ==
    /\ calls[1].inv.pc = "settled" /\ calls[2].inv.pc = "settled"
    /\ calls[1].overlapped /\ calls[2].overlapped
    /\ calls[1].inv.licenseKey # calls[2].inv.licenseKey
    /\ calls[1].inv.outcome = "true"
    /\ calls[2].inv.outcome = "false"
    /\ calls[2].inv.steps[Len(calls[2].inv.steps)] = "signature"

\* C17: the loader renders the widget only after validateLicense resolved
\* true for the configured key and window.location.hostname; without a
\* configured key it ends without calling validateLicense and without
\* rendering; when validateLicense resolves false it makes no container and
\* renders nothing.
C17_RendersOnlyWhenLicensed ==
    /\ page.rendered =>
          /\ page.pc = "done"
          /\ page.isValid = "true"
          /\ page.validateCalls = 1
          /\ page.licenseKey = ConfiguredKey(page.scriptAttr, page.globalKey)
          /\ page.validatedHostname = page.hostname
          /\ "true" \in validateLicense(page.licenseKey, page.hostname,
                                        page.cryptoAvailable, now)
    /\ page.pc # "done" => ~page.rendered /\ ~page.containerCreated
    /\ (page.pc = "done" /\ ~Truthy(ConfiguredKey(page.scriptAttr, page.globalKey))) =>
          page.validateCalls = 0 /\ ~page.rendered /\ ~page.containerCreated
    /\ (page.pc = "done" /\ page.isValid = "false") =>
          ~page.rendered /\ ~page.containerCreated

\* the loader has made the container and rendered the widget for the key
\* of the script tag
C17_Witness ==
    /\ page.rendered /\ page.containerCreated
    /\ page.licenseKey = page.scriptAttr
    /\ page.isValid = "true"

\* the keydown e is a shortcut for code: Alt is held and the target is no
\* INPUT, TEXTAREA or content-editable element
IsShortcut(e, code) ==
    /\ e.altKey
    /\ e.code = code
    /\ e.tagName \notin {"INPUT", "TEXTAREA"}
    /\ ~e.isContentEditable

\* what one keydown does to the panel and the settings while the hook is
\* enabled
C18Step ==
    kb.enabled =>
        /\ IsShortcut(kb'.event, "KeyA") =>
              kb'.isOpen = ~kb.isOpen /\ kb'.settings = kb.settings
        /\ IsShortcut(kb'.event, "KeyC") =>
              /\ kb'.settings = [kb.settings EXCEPT !.highContrast = ~kb.settings.highContrast]
              /\ kb'.isOpen = kb.isOpen
        /\ IsShortcut(kb'.event, "KeyM") =>
              /\ kb'.settings = [kb.settings EXCEPT !.reduceMotion = ~kb.settings.reduceMotion]
              /\ kb'.isOpen = kb.isOpen
        /\ IsShortcut(kb'.event, "KeyR") =>
              kb'.settings = defaultSettings /\ kb'.isOpen = kb.isOpen
        /\ (\A code \in {"KeyA", "KeyC", "KeyM", "KeyR"} : ~IsShortcut(kb'.event, code)) =>
              /\ kb'.isOpen = kb.isOpen
              /\ kb'.settings = kb.settings
              /\ kb'.called = "none"

\* C18: while the hook is enabled, Alt+KeyA toggles the panel, Alt+KeyC
\* toggles highContrast, Alt+KeyM toggles reduceMotion and Alt+KeyR resets
\* the settings to the defaults; a keydown without Alt, with another code,
\* or on an INPUT, a TEXTAREA or a content-editable element does none of it.
C18_KeyboardShortcuts == [][C18Step]_kb

\* Alt+KeyR has reset the settings, with the panel open
C18_Witness ==
    /\ kb.enabled
    /\ kb.event = KeyboardEvent(TRUE, "KeyR", "DIV", FALSE)
    /\ kb.called = "resetSettings"
    /\ kb.settings = defaultSettings
    /\ kb.isOpen

\* the checks of validateLicense in the order of the source
CheckOrder ==
    <<"crypto", "prefix", "split", "segments", "decode", "parse", "fields",
      "importKey", "sigDecode", "verify", "signature", "domain", "expiry">>

IsPrefixOf(s, t) == Len(s) <= Len(t) /\ SubSeq(t, 1, Len(s)) = s

\* the check named step was evaluated
Evaluated(steps, step) == \E i \in 1..Len(steps) : steps[i] = step

\* the key of the invocation v fails a check of its format: prefix, split,
\* segments, decoding or parsing of the payload, required fields
FormatFails(v) ==
    v.cryptoAvailable /\ ValidateStart(v.licenseKey, TRUE).r # "await"

\* the key of the invocation v passes the checks of its format and its
\* signature segment decodes, but the signature does not verify
SignatureFails(v) ==
    /\ v.cryptoAvailable
    /\ ValidateStart(v.licenseKey, TRUE).r = "await"
    /\ base64urlDecode(SignatureB64Of(v.licenseKey.s)).ok
    /\ ~IsSignatureValid(PayloadB64Of(v.licenseKey.s), SignatureB64Of(v.licenseKey.s))

\* C20: the checks run in the order of the source and stop at the first
\* that fails: a key that fails a format check is rejected without
\* importKey or verify being called, a key whose signature does not verify
\* is rejected without the domain or the expiry being looked at, and only a
\* call that passed every check resolves true.
C20_ChecksInOrder ==
    /\ IsPrefixOf(ver.steps, CheckOrder)
    /\ ver.pc = "awaitImportKey" => ver.steps[Len(ver.steps)] = "importKey"
    /\ ver.pc = "awaitVerify" => ver.steps[Len(ver.steps)] = "verify"
    /\ ver.reachedExpiry <=> Evaluated(ver.steps, "expiry")
    /\ (ver.pc = "settled" /\ FormatFails(ver)) =>
          /\ ver.outcome = "false"
          /\ ~Evaluated(ver.steps, "importKey")
          /\ ~Evaluated(ver.steps, "verify")
    /\ (ver.pc = "settled" /\ SignatureFails(ver)) =>
          /\ ver.outcome = "false"
          /\ Evaluated(ver.steps, "verify")
          /\ ~Evaluated(ver.steps, "domain")
          /\ ~Evaluated(ver.steps, "expiry")
    /\ ver.outcome = "true" => ver.steps = CheckOrder

\* a key with a tampered signature segment was rejected at the check of
\* the result of verify
C20_Witness ==
    /\ ver.pc = "settled"
    /\ ver.src.kind = "tampered" /\ ver.src.seg = "signature"
    /\ ver.steps = SubSeq(CheckOrder, 1, 11)
    /\ ver.outcome = "false"

\* the positions of '.' in s
DotPositions(s) == { j \in 1..Len(s) : s[j] = CH_DOT }

\* the position of the last '.' in s, which has one
LastDot(s) == CHOOSE p \in DotPositions(s) : \A q \in DotPositions(s) : q <= p

BeforeLastDot(s) == SubSeq(s, 1, LastDot(s) - 1)

AfterLastDot(s) == SubSeq(s, LastDot(s) + 1, Len(s))

\* the invocation v was given a string with the prefix while Web Crypto
\* was there, so that it came to the split
CameToSplit(v) ==
    v.cryptoAvailable /\ IsStr(v.licenseKey) /\ StartsWith(v.licenseKey.s, AW_PREFIX)

\* the text after the prefix cannot be split into two segments
Unsplittable(s) ==
    \/ DotPositions(s) = {}
    \/ BeforeLastDot(s) = <<>>
    \/ AfterLastDot(s) = <<>>

\* C21: the text after 'AW-' is split at its last '.': the payload segment
\* is what precedes it, the signature segment what follows it; a key
\* without '.', or with nothing on one side of the last '.', is rejected.
C21_SplitAtLastDot ==
    /\ Evaluated(ver.steps, "importKey") =>
          /\ ver.payloadB64 = BeforeLastDot(KeyBody(ver.licenseKey.s))
          /\ ver.signatureB64 = AfterLastDot(KeyBody(ver.licenseKey.s))
    /\ (ver.pc = "settled" /\ CameToSplit(ver) /\ Unsplittable(KeyBody(ver.licenseKey.s))) =>
          /\ ver.outcome = "false"
          /\ ~Evaluated(ver.steps, "decode")
    /\ (ver.pc = "settled" /\ CameToSplit(ver) /\ ~Unsplittable(KeyBody(ver.licenseKey.s))) =>
          Evaluated(ver.steps, "decode")

\* a key with two '.': its payload segment holds the first, so it does not
\* decode
C21_Witness ==
    /\ ver.pc = "settled"
    /\ ver.src.name = "two dots"
    /\ ver.cryptoAvailable
    /\ ver.steps[Len(ver.steps)] = "decode"
    /\ ver.outcome = "false"

\* C22: without Web Crypto validateLicense resolves false at once for every
\* key and hostname, a key that is otherwise accepted and a malformed key
\* included, and logs a warning, no other check being evaluated; with Web
\* Crypto it logs nothing.
C22_CryptoUnavailable ==
    /\ (ver.pc # "idle" /\ ~ver.cryptoAvailable) =>
          /\ ver.pc = "settled"
          /\ ver.outcome = "false"
          /\ ver.warned
          /\ ver.steps = <<"crypto">>
    /\ (ver.pc # "idle" /\ ver.cryptoAvailable) => ~ver.warned

\* the key the issuer printed, presented on its own domain before it
\* expires, is refused with a warning for want of Web Crypto
C22_Witness ==
    /\ ver.pc = "settled"
    /\ ~ver.cryptoAvailable
    /\ ver.src.kind = "issued"
    /\ KeysPaired
    /\ "true" \in validateLicense(ver.licenseKey, ver.hostname, TRUE, now)
    /\ ver.outcome = "false"
    /\ ver.warned

\* C23 as stated: an invocation that reaches the verification of the
\* signature has suspended exactly once, at the call of verify.
C23_OneSuspendPoint ==
    (ver.pc = "settled" /\ Evaluated(ver.steps, "verify")) =>
        ver.awaits = <<"awaitVerify">>

\* C23: an invocation that reaches the verification of the signature
\* suspends exactly twice, first at the await of importKey, then at the
\* await of verify; one that stops at the decoding of the signature segment
\* has suspended once, at importKey; one that stops earlier has not
\* suspended.
C23_TwoSuspendPoints ==
    /\ Evaluated(ver.steps, "verify") =>
          /\ ver.pc = "awaitVerify" \/ ver.pc = "settled"
          /\ ver.awaits = <<"awaitImportKey", "awaitVerify">>
    /\ (Evaluated(ver.steps, "importKey") /\ ~Evaluated(ver.steps, "verify")) =>
          ver.awaits = <<"awaitImportKey">>
    /\ ~Evaluated(ver.steps, "importKey") => ver.awaits = <<>>

\* the issued key was accepted after both awaits
C23_Witness ==
    /\ ver.pc = "settled"
    /\ ver.src.kind = "issued"
    /\ ver.outcome = "true"
    /\ ver.awaits = <<"awaitImportKey", "awaitVerify">>

\* the times at which the same call is made again
OtherTimes == ClockPoints \cup {IssueTime}

\* the time the invocation v read, or could have read, at line 154
TimeRead(v) == IF v.reachedExpiry THEN v.checkedAt ELSE now

\* what the last stretch of the invocation v resolves to when the clock
\* shows t at line 154, isSignatureValid being what verify resolved to and
\* the engine parsing the expiry date as it did for v; the stretches before
\* it do not read the clock
OutcomeAt(v, isSignatureValid, t) ==
    Settle(ValidateAfterVerify(isSignatureValid, v.payload, v.hostname, v.expiryDate, t))

MonotoneFrom(v, isSignatureValid) ==
    /\ OutcomeAt(v, isSignatureValid, TimeRead(v)) = v.outcome
    /\ v.outcome = "false" =>
          \A t \in OtherTimes :
              TimeBefore(TimeRead(v), t) => OutcomeAt(v, isSignatureValid, t) = "false"
    /\ v.outcome = "true" =>
          \A t \in OtherTimes :
              TimeBefore(t, TimeRead(v)) => OutcomeAt(v, isSignatureValid, t) = "true"

\* C24: with Web Crypto available, a call that resolves false at a time
\* resolves false at every later time, and a call that resolves true
\* resolves true at every earlier time.
C24_MonotoneInTime ==
    (ver.pc = "settled" /\ ver.cryptoAvailable /\ Evaluated(ver.steps, "signature")) =>
        MonotoneFrom(ver, IsSignatureValid(ver.payloadB64, ver.signatureB64))

\* a key refused as expired one millisecond after the end of its last
\* day, which was accepted a millisecond earlier
C24_Witness ==
    /\ ver.pc = "settled" /\ ver.cryptoAvailable
    /\ ver.reachedExpiry
    /\ ver.outcome = "false"
    /\ ver.checkedAt = TimeValue(DaysFromCivil(2025, 2, 15), 86399001)
    /\ OutcomeAt(ver, TRUE, TimeValue(DaysFromCivil(2025, 2, 15), 86399000)) = "true"

\* the settings that have a class of their own when they are on
BooleanKeys ==
    {"highContrast", "reduceMotion", "highlightLinks", "lineHeight", "dyslexiaFont",
     "bigCursor", "readingGuide"}

\* the classes that settings calls for
ImpliedClasses(settings) ==
    { BooleanClass(key) : key \in { k \in BooleanKeys : settings[k] = TRUE } }
    \cup (IF settings.textSize # "100" THEN {"a11y-text-" \o settings.textSize} ELSE {})
    \cup (IF settings.colorBlindnessMode # "none"
          THEN {"a11y-" \o settings.colorBlindnessMode} ELSE {})
    \cup (IF settings.focusIndicator.enabled THEN {"a11y-focus-custom"} ELSE {})

\* the classes on body that begin with 'a11y-'
A11yClassesOn(list) == { list[j] : j \in { i \in 1..Len(list) : StartsWith(list[i], "a11y-") } }

\* C25: once the effect on settings has run, the classes on body that
\* begin with 'a11y-' are exactly those the settings call for; no class of
\* a setting that is off remains.
C25_BodyClassesMatchSettings ==
    (hook.pc = "mounted" /\ ~hook.applyDue) =>
        A11yClassesOn(hook.body) = ImpliedClasses(hook.settings)

\* r clamped to 0.5 .. 2.0, in tenths
Clamped(r) == IF r < 5 THEN 5 ELSE IF r > 20 THEN 20 ELSE r

\* C26: in every state of the settings hook, whatever was called and
\* whatever the load found in localStorage, settings.ttsRate lies between
\* 0.5 and 2.0; and setTTSRate(r) has stored r clamped to that range.
C26_TTSRateInRange ==
    /\ hook.settings.ttsRate \in 5..20
    /\ (hook.called = "setTTSRate" => hook.settings.ttsRate \in { Clamped(r) : r \in Rates })

\* C27: once resetSettings has been called and the effects of it have
\* run, every setting has its default value and the announcement is 'All
\* accessibility settings reset', with the timer that clears it a second
\* later set for it.
C27_ResetAnnounced ==
    (hook.called = "resetSettings" /\ HookReady) =>
        /\ hook.settings = defaultSettings
        /\ hook.announcement = "All accessibility settings reset"
        /\ hook.timer = "All accessibility settings reset"

\* the text of 'a11y-settings' was that of an object when the hook mounted
StoredObject == hook.visit.k = "object"

\* every key of the defaults is in settings, and what was stored comes
\* before the default, field by field for focusIndicator
DefaultsUnderStored(settings, stored) ==
    /\ DOMAIN defaultSettings \subseteq DOMAIN settings
    /\ DOMAIN defaultSettings.focusIndicator \subseteq DOMAIN settings.focusIndicator
    /\ \A key \in DOMAIN defaultSettings \ {"focusIndicator"} :
          settings[key] = IF key \in DOMAIN stored THEN stored[key] ELSE defaultSettings[key]
    /\ \A f \in DOMAIN defaultSettings.focusIndicator :
          settings.focusIndicator[f] =
              IF "focusIndicator" \in DOMAIN stored /\ f \in DOMAIN stored.focusIndicator
              THEN stored.focusIndicator[f]
              ELSE defaultSettings.focusIndicator[f]

\* C28: the hook does not write 'a11y-settings' before the load has read
\* it, and nothing is saved while isLoaded is false: through the effects
\* of the first render the entry is what the visit before left.  After
\* the load the settings have every key of the defaults, the stored value
\* first, and these are what the first save writes.
C28_NoSaveBeforeLoad ==
    /\ ~hook.wroteBeforeRead
    /\ (~hook.isLoaded \/ (hook.called = "mount" /\ hook.applyDue)) => hook.storage = hook.visit
    /\ (hook.called = "mount" /\ StoredObject) =>
          /\ DefaultsUnderStored(hook.settings, hook.visit.v)
          /\ hook.storage \in {hook.visit, StorageEntry("object", hook.settings)}

\* a visit that left highContrast and reduceMotion on: after the first
\* save the entry holds them with every other key at its default
C28_Witness ==
    /\ hook.called = "mount" /\ HookReady
    /\ hook.visit = StorageEntry("object", [highContrast |-> TRUE, reduceMotion |-> TRUE])
    /\ hook.storage = StorageEntry("object", [defaultSettings EXCEPT !.highContrast = TRUE,
                                                                     !.reduceMotion = TRUE])

\* C29: however many calls of init are made on a document, overlapping
\* or not, the document has at most one element with the id
\* 'a11y-widget-root': a call makes one only when it finds none.
C29_OneContainer ==
    /\ loads.containers <= 1
    /\ Cardinality({ id \in InitIds : loads.inits[id].containerCreated }) <= 1

\* three calls that overlapped, each with a valid key, have all rendered
\* the widget; the first to resume made the container
C29_Witness ==
    /\ loads.overlapped
    /\ \A id \in InitIds : loads.inits[id].pc = "done" /\ loads.inits[id].rendered
    /\ loads.roots = 3
    /\ loads.containers = 1
    /\ \E id \in InitIds : loads.inits[id].containerCreated

\* the queues hold the widget's stylesheet and its script
WidgetEnqueued ==
    /\ \E s \in wp.styles : s.handle = "akby-a11y-widget-css"
    /\ \E s \in wp.scripts : s.handle = "akby-a11y-widget-js"

\* the queues hold neither
WidgetNotEnqueued ==
    /\ \A s \in wp.styles : s.handle # "akby-a11y-widget-css"
    /\ \A s \in wp.scripts : s.handle # "akby-a11y-widget-js"

\* the text of the attribute for the stored key
KeyAttribute == " data-license-key=\"" \o esc_attr(wp.option) \o "\""

\* C30: once wp_enqueue_scripts has been done, the stylesheet and the
\* script of the widget are in the queues if and only if the stored
\* license key is not the empty text; the tag of the script with the
\* handle 'akby-a11y-widget-js' comes back with the attribute
\* data-license-key carrying that key, once, and every other tag comes
\* back as it went in.
C30_EnqueuedIffKeyStored ==
    /\ wp.enqueued => IF wp.option # "" THEN WidgetEnqueued ELSE WidgetNotEnqueued
    /\ \A j \in 1..Len(wp.tags) :
          IF wp.tags[j].handle = "akby-a11y-widget-js"
          THEN /\ str_replace(KeyAttribute, "", wp.tags[j].out) = wp.tags[j].tag
               /\ Len(wp.tags[j].out) = Len(wp.tags[j].tag) + Len(KeyAttribute)
          ELSE wp.tags[j].out = wp.tags[j].tag

=============================================================================
